---------------------------- MODULE Spec2Model ----------------------------
(***************************************************************************)
(* A model of oofdere/oke: the nondeterministic tokenizer                  *)
(* (src/nondet-tokenizer/compression.ts, class NondeterministicTokenizer)  *)
(* and the grammar compiler (src/grammar/readme.md, stringify / grammar).  *)
(*                                                                         *)
(* Strings are sequences of UTF-16 code units, as in JavaScript.  A code   *)
(* unit is written as a one-element TLA+ string ("a", "<"); "HI" and "LO"  *)
(* stand for a high and a low surrogate code unit, so <<"HI", "LO">> is    *)
(* one astral character (an emoji) of length 2.  Token IDs and text        *)
(* positions are 0-based, as in the source.  The text of a grammar is a    *)
(* sequence of characters in the same way.                                 *)
(***************************************************************************)
EXTENDS Integers, Sequences, FiniteSets, TLC

VARIABLES
    vocabulary,       \* this.vocabulary
    trie,             \* this.trie
    specialTokenMap,  \* this.specialTokenMap (a Map: insertion-ordered)
    text,             \* the text argument of the call
    options,          \* the options argument of the call
    tokens,           \* the IDs the last tokenize call returned
    run,              \* what that call did: its segments and per-position steps
    previous,         \* what the first tokenize call returned, and the kinds
                      \* of the tokenize calls made since
    decoded,          \* the string the last detokenize call returned
    rules,            \* the rule mapping handed to grammar(), in insertion order
    grammarOptions,   \* the options handed to grammar()
    output,           \* what grammar() returned, or that it threw
    call,             \* the last call of a function that keeps no state of
                      \* its own: its name, its arguments and what it returned
    pc                \* which call comes next

tokenizerVars == <<vocabulary, trie, specialTokenMap, text, options, tokens,
                   run, previous, decoded>>

grammarVars == <<rules, grammarOptions, output>>

vars == <<tokenizerVars, grammarVars, call, pc>>

\* An optional value (a field that may be undefined) is a sequence of length
\* 0 or 1.
None == <<>>
Some(x) == <<x>>

\* An undefined strategy string, and the undefined that indexing tokens out
\* of range yields (a value no string of code units equals).
Undefined == "undefined"
UndefinedText == <<"undefined">>

(***************************************************************************)
(* Bounds of the model.                                                    *)
(***************************************************************************)
MaxTextLen == 3
MaxLaterCalls == 2

\* The largest number of rules in a mapping handed to grammar().
MaxRules == 2

\* The largest number of elements of a sequence or choice handed to
\* stringify, and the largest repeat count next to -1 and 10.
MaxArity == 2

MaxRepeat == 2

\* The largest number of IDs handed to detokenize directly.
MaxIds == 3

\* The largest number of segments handed to selectiveCompress.
MaxSegments == 2

(***************************************************************************)
(* Strings.                                                                *)
(***************************************************************************)
HighSurrogates == {"HI"}
LowSurrogates == {"LO"}

\* The string iterator, `for (const char of tokenText)`: it yields code
\* points, so a surrogate pair comes out as ONE two-unit string.
RECURSIVE CodePoints(_)
CodePoints(s) ==
    IF s = <<>> THEN <<>>
    ELSE IF Len(s) >= 2 /\ s[1] \in HighSurrogates /\ s[2] \in LowSurrogates
         THEN <<SubSeq(s, 1, 2)>> \o CodePoints(SubSeq(s, 3, Len(s)))
         ELSE <<SubSeq(s, 1, 1)>> \o CodePoints(Tail(s))

\* text.substring(start, end), for 0 <= start <= end <= text.length.
Substring(s, start, end) == SubSeq(s, start + 1, end)

\* text.indexOf(needle, from) for a non-empty needle: the first index >= from
\* at which needle occurs, or -1.
IndexOf(s, needle, from) ==
    LET hits == {i \in from..(Len(s) - Len(needle)) :
                    Substring(s, i, i + Len(needle)) = needle}
    IN  IF hits = {} THEN -1
        ELSE CHOOSE i \in hits : \A j \in hits : i <= j

\* Array.prototype.join("") over a sequence of strings.
RECURSIVE Concat(_)
Concat(ss) == IF ss = <<>> THEN <<>> ELSE Head(ss) \o Concat(Tail(ss))

\* All strings over an alphabet, up to a length.
RECURSIVE StringsUpTo(_, _)
StringsUpTo(alphabet, n) ==
    IF n = 0 THEN {<<>>}
    ELSE LET shorter == StringsUpTo(alphabet, n - 1)
         IN  shorter \cup {Append(s, c) : s \in shorter, c \in alphabet}

(***************************************************************************)
(* The vocabulary.                                                         *)
(***************************************************************************)
\* this.vocabulary.tokens[id]: undefined outside 0..length-1.
TokenAt(vocab, id) ==
    IF id \in 0..(Len(vocab.tokens) - 1) THEN vocab.tokens[id + 1]
    ELSE UndefinedText

\* A string is truthy when it is neither undefined nor empty.
Truthy(s) == s # UndefinedText /\ s # <<>>

vocabSize(vocab) == Len(vocab.tokens)

(***************************************************************************)
(* buildTrie: a node is named by its path from the root, a sequence of     *)
(* child keys; each key is one item of the string iterator (a code point). *)
(* The trie maps every node to its tokenIds, in the order they were pushed *)
(* (ascending token ID).                                                   *)
(***************************************************************************)
RECURSIVE IdsEndingAt(_, _, _)
IdsEndingAt(vocab, path, tokenId) ==
    IF tokenId >= Len(vocab.tokens) THEN <<>>
    ELSE (IF CodePoints(vocab.tokens[tokenId + 1]) = path
          THEN <<tokenId>> ELSE <<>>)
         \o IdsEndingAt(vocab, path, tokenId + 1)

buildTrie(vocab) ==
    LET prefixes(cps) == {SubSeq(cps, 1, k) : k \in 0..Len(cps)}
        paths == UNION {prefixes(CodePoints(vocab.tokens[i])) :
                           i \in 1..Len(vocab.tokens)} \cup {<<>>}
    IN  [p \in paths |-> IdsEndingAt(vocab, p, 0)]

(***************************************************************************)
(* findValidTokens: walks the trie one CODE UNIT of the text at a time     *)
(* (text[pos]) and collects the token IDs of every node it passes.         *)
(***************************************************************************)
RECURSIVE WalkTrie(_, _, _, _, _)
WalkTrie(t, s, startPos, pos, node) ==
    IF pos >= Len(s) THEN <<>>
    ELSE LET char == Substring(s, pos, pos + 1)
             nextNode == Append(node, char)
         IN  IF nextNode \notin DOMAIN t THEN <<>>
             ELSE [i \in 1..Len(t[nextNode]) |->
                      [id |-> t[nextNode][i],
                       length |-> pos + 1 - startPos,
                       text |-> Substring(s, startPos, pos + 1)]]
                  \o WalkTrie(t, s, startPos, pos + 1, nextNode)

findValidTokens(t, s, startPos) == WalkTrie(t, s, startPos, startPos, <<>>)

(***************************************************************************)
(* buildSpecialTokenMap: a Map keeps its keys in insertion order, and      *)
(* set() on a key already present replaces the value where the key stands. *)
(***************************************************************************)
MapHas(m, key) == \E i \in 1..Len(m) : m[i].text = key

MapSet(m, key, value) ==
    IF MapHas(m, key)
    THEN [i \in 1..Len(m) |->
             IF m[i].text = key THEN [text |-> key, id |-> value] ELSE m[i]]
    ELSE Append(m, [text |-> key, id |-> value])

\* A map.set without the `if (tokenText)` guard.
SetIfTextAlways(m, vocab, tokenId) ==
    MapSet(m, TokenAt(vocab, tokenId), tokenId)

\* One `if (tokenText) map.set(tokenText, tokenId)`.
SetIfText(m, vocab, tokenId) ==
    IF Truthy(TokenAt(vocab, tokenId))
    THEN MapSet(m, TokenAt(vocab, tokenId), tokenId)
    ELSE m

RECURSIVE SetAllSpecial(_, _, _)
SetAllSpecial(m, vocab, specialIds) ==
    IF specialIds = <<>> THEN m
    ELSE SetAllSpecial(SetIfText(m, vocab, Head(specialIds)), vocab,
                       Tail(specialIds))

buildSpecialTokenMap(vocab) ==
    LET afterIds == SetAllSpecial(<<>>, vocab, vocab.special_token_ids)
        afterBos == IF vocab.bos_token_id # None
                    THEN SetIfText(afterIds, vocab, vocab.bos_token_id[1])
                    ELSE afterIds
    IN  IF vocab.eos_token_id # None
        THEN SetIfText(afterBos, vocab, vocab.eos_token_id[1])
        ELSE afterBos

(***************************************************************************)
(* findSpecialTokens: per special token, its leftmost non-overlapping      *)
(* occurrences; then all matches sorted by start (Array.sort is stable).   *)
(***************************************************************************)
RECURSIVE ScanFor(_, _, _, _)
ScanFor(s, tokenText, tokenId, pos) ==
    LET at == IndexOf(s, tokenText, pos)
    IN  IF at = -1 THEN <<>>
        ELSE <<[start |-> at, end |-> at + Len(tokenText), tokenId |-> tokenId]>>
             \o ScanFor(s, tokenText, tokenId, at + Len(tokenText))

RECURSIVE ScanAll(_, _)
ScanAll(m, s) ==
    IF m = <<>> THEN <<>>
    ELSE ScanFor(s, Head(m).text, Head(m).id, 0) \o ScanAll(Tail(m), s)

RECURSIVE WithStart(_, _)
WithStart(matches, start) ==
    IF matches = <<>> THEN <<>>
    ELSE (IF Head(matches).start = start THEN <<Head(matches)>> ELSE <<>>)
         \o WithStart(Tail(matches), start)

RECURSIVE SortByStart(_, _, _)
SortByStart(matches, start, last) ==
    IF start > last THEN <<>>
    ELSE WithStart(matches, start) \o SortByStart(matches, start + 1, last)

findSpecialTokens(m, s) == SortByStart(ScanAll(m, s), 0, Len(s))

(***************************************************************************)
(* tokenize, lines 646-676: the segments, special and normal.              *)
(***************************************************************************)
NormalSegment(start, end) ==
    [start |-> start, end |-> end, isSpecial |-> FALSE, tokenId |-> None]

SpecialSegment(special) ==
    [start |-> special.start, end |-> special.end, isSpecial |-> TRUE,
     tokenId |-> Some(special.tokenId)]

RECURSIVE Interleave(_, _, _)
Interleave(specials, lastPos, textLength) ==
    IF specials = <<>>
    THEN IF lastPos < textLength
         THEN <<NormalSegment(lastPos, textLength)>> ELSE <<>>
    ELSE LET special == Head(specials)
         IN  (IF lastPos < special.start
              THEN <<NormalSegment(lastPos, special.start)>> ELSE <<>>)
             \o <<SpecialSegment(special)>>
             \o Interleave(Tail(specials), special.end, textLength)

BuildSegments(specialTokenPositions, s) ==
    IF specialTokenPositions = <<>>
    THEN <<NormalSegment(0, Len(s))>>
    ELSE Interleave(specialTokenPositions, 0, Len(s))

(***************************************************************************)
(* 32-bit words, as a pair <<high 16 bits, low 16 bits>>: JavaScript's     *)
(* bitwise operators and Math.imul work modulo 2^32.                       *)
(***************************************************************************)
Half == 65536

ToUint32(n) == <<(n \div Half) % Half, n % Half>>

RECURSIVE BitXor(_, _, _)
BitXor(a, b, bits) ==
    IF bits = 0 THEN 0
    ELSE (((a % 2) + (b % 2)) % 2) + 2 * BitXor(a \div 2, b \div 2, bits - 1)

RECURSIVE BitOr(_, _, _)
BitOr(a, b, bits) ==
    IF bits = 0 THEN 0
    ELSE (IF a % 2 = 1 \/ b % 2 = 1 THEN 1 ELSE 0)
         + 2 * BitOr(a \div 2, b \div 2, bits - 1)

Xor32(x, y) == <<BitXor(x[1], y[1], 16), BitXor(x[2], y[2], 16)>>

Or32(x, y) == <<BitOr(x[1], y[1], 16), BitOr(x[2], y[2], 16)>>

Add32(x, y) ==
    LET lo == x[2] + y[2]
    IN  <<(x[1] + y[1] + (lo \div Half)) % Half, lo % Half>>

\* x >>> k, for 0 < k < 16.
Shr32(x, k) ==
    LET p == 2 ^ k
    IN  <<x[1] \div p, (x[2] \div p) + ((x[1] % p) * (Half \div p))>>

\* The low 16 bits of a product of two 16-bit numbers.
MulLo16(a, b) == (((((a \div 256) * b) % 256) * 256) + ((a % 256) * b)) % Half

\* Math.imul: the low 32 bits of the product.
Imul32(x, y) ==
    LET p0 == (x[2] % 256) * y[2]
        p1 == (x[2] \div 256) * y[2]
        loSum == ((p1 % 256) * 256) + (p0 % Half)
        hi == (p1 \div 256) + (p0 \div Half) + (loSum \div Half)
        cross == MulLo16(x[1], y[2]) + MulLo16(x[2], y[1])
    IN  <<(hi + cross) % Half, loSum % Half>>

(***************************************************************************)
(* SeededRandom (mulberry32).  A random value in [0, 1) is kept as the     *)
(* 32-bit numerator u of u / 2^32.                                         *)
(***************************************************************************)
SeededRandom(seed) == ToUint32(seed)

\* this.state += 0x6D2B79F5
Advance(state) == Add32(state, <<27947, 31221>>)

\* next(): the value returned from the advanced state t.
Mulberry(t0) ==
    LET t1 == Imul32(Xor32(t0, Shr32(t0, 15)), Or32(t0, <<0, 1>>))
        t2 == Xor32(t1, Add32(t1, Imul32(Xor32(t1, Shr32(t1, 7)),
                                          Or32(t1, <<0, 61>>))))
    IN  Xor32(t2, Shr32(t2, 14))

\* Math.floor(r * max) for r = u / 2^32 and a small positive integer max.
FloorTimes(u, max) == ((u[1] * max) + ((u[2] * max) \div Half)) \div Half

\* r < num / den for r = u / 2^32.
LessThanRatio(u, num, den) ==
    (u[1] * den) + ((u[2] * den) \div Half) < num * Half

(***************************************************************************)
(* The random source of one call: the call's own SeededRandom when a seed  *)
(* is given, Math.random otherwise.  Math.random may return any value of   *)
(* [0, 1); the model lets it return the multiples of 1 / RandomSteps and   *)
(* the largest value below 1.                                              *)
(***************************************************************************)
RandomSteps == 16

MathRandom == [seeded |-> FALSE, state |-> <<0, 0>>]

MathRandomValues ==
    {<<(k * Half) \div RandomSteps, 0>> : k \in 0..(RandomSteps - 1)}
    \cup {<<Half - 1, Half - 1>>}

\* const rng = opts.seed !== undefined ? new SeededRandom(opts.seed) : null
MakeRngNull(opts) == MathRandom

MakeRng(opts) ==
    IF opts.seed # None
    THEN [seeded |-> TRUE, state |-> SeededRandom(opts.seed[1])]
    ELSE MathRandom

\* rng ? rng.next() : Math.random(): the values one draw may return, each
\* with the source as the draw leaves it.
Draws(rng) ==
    IF rng.seeded
    THEN {[value |-> Mulberry(Advance(rng.state)),
           rng |-> [rng EXCEPT !.state = Advance(rng.state)]]}
    ELSE {[value |-> r, rng |-> rng] : r \in MathRandomValues}

(***************************************************************************)
(* The selection strategies, lines 703-753.                                *)
(***************************************************************************)
RECURSIVE FilterByLength(_, _)
FilterByLength(validTokens, length) ==
    IF validTokens = <<>> THEN <<>>
    ELSE (IF Head(validTokens).length = length
          THEN <<Head(validTokens)>> ELSE <<>>)
         \o FilterByLength(Tail(validTokens), length)

Lengths(validTokens) == {validTokens[i].length : i \in DOMAIN validTokens}

MinOf(S) == CHOOSE x \in S : \A y \in S : x <= y
MaxOf(S) == CHOOSE x \in S : \A y \in S : x >= y
Abs(x) == IF x < 0 THEN -x ELSE x

\* candidates[Math.floor(r * candidates.length)]
PickUniform(candidates, r) == candidates[FloorTimes(r, Len(candidates)) + 1]

SelectShortest(validTokens, r) ==
    PickUniform(FilterByLength(validTokens, MinOf(Lengths(validTokens))), r)

\* A selection that forgets to keep only the longest candidates.
SelectLongestUnfiltered(validTokens, r) == PickUniform(validTokens, r)

SelectLongest(validTokens, r) ==
    PickUniform(FilterByLength(validTokens, MaxOf(Lengths(validTokens))), r)

SelectRandom(validTokens, r) == PickUniform(validTokens, r)

RECURSIVE Product(_, _)
Product(f, n) == IF n = 0 THEN 1 ELSE f[n] * Product(f, n - 1)

RECURSIVE Sum(_, _)
Sum(f, n) == IF n = 0 THEN 0 ELSE f[n] + Sum(f, n - 1)

\* A selection that never finds the draw covered and falls back.
SelectIdealLengthLast(validTokens, idealLength, r) ==
    validTokens[Len(validTokens)]

\* weights[i] = 1 / (1 + |length - idealLength|); with P the product of the
\* denominators, weights[i] / totalWeight = (P / d[i]) / Sum(P / d[j]), an
\* exact ratio of integers.  The first i whose cumulative weight exceeds the
\* draw is selected, the last candidate when none does.
SelectIdealLength(validTokens, idealLength, r) ==
    LET n == Len(validTokens)
        d == [i \in 1..n |-> 1 + Abs(validTokens[i].length - idealLength)]
        w == [i \in 1..n |-> Product(d, n) \div d[i]]
        covered == {i \in 1..n : LessThanRatio(r, Sum(w, i), Sum(w, n))}
    IN  IF covered = {} THEN validTokens[n] ELSE validTokens[MinOf(covered)]

Select(strategy, idealLength, validTokens, r) ==
    CASE strategy = "shortest" -> SelectShortest(validTokens, r)
      [] strategy = "longest" -> SelectLongest(validTokens, r)
      [] strategy = "ideal-length" -> SelectIdealLength(validTokens, idealLength, r)
      [] OTHER -> SelectRandom(validTokens, r)

(***************************************************************************)
(* tokenize.  A call with Math.random has several possible results, so     *)
(* each operator yields the SET of outcomes; an outcome carries the IDs    *)
(* pushed and, per loop iteration, the step taken (the candidates found    *)
(* and the one selected), and the random source as the loop leaves it.     *)
(***************************************************************************)
EffectiveStrategy(opts) ==
    IF opts.strategy = Undefined THEN "random" ELSE opts.strategy

\* opts.idealLength || 4
EffectiveIdealLength(opts) ==
    IF opts.idealLength = None \/ opts.idealLength = Some(0) THEN 4
    ELSE opts.idealLength[1]

\* opts.preserveSpecialTokens ?? true
EffectivePreserve(opts) ==
    IF opts.preserveSpecialTokens = None THEN TRUE
    ELSE opts.preserveSpecialTokens[1]

Step(start, pos, validTokens, selected) ==
    [start |-> start, pos |-> pos, validTokens |-> validTokens,
     selected |-> selected]

\* The while loop of lines 688-757 over one normal segment, from pos on.
RECURSIVE TokenizeSegment(_, _, _, _, _, _)
TokenizeSegment(t, segmentText, start, pos, opts, rng) ==
    IF pos >= Len(segmentText)
    THEN {[ids |-> <<>>, steps |-> <<>>, rng |-> rng]}
    ELSE LET validTokens == findValidTokens(t, segmentText, pos)
         IN  IF validTokens = <<>>
             THEN {[rest EXCEPT
                      !.steps = <<Step(start, pos, validTokens, None)>> \o @] :
                   rest \in TokenizeSegment(t, segmentText, start, pos + 1,
                                            opts, rng)}
             ELSE LET choices ==
                        {[selectedToken |->
                             Select(EffectiveStrategy(opts),
                                    EffectiveIdealLength(opts),
                                    validTokens, draw.value),
                          rng |-> draw.rng] : draw \in Draws(rng)}
                  IN  UNION {
                        {[rest EXCEPT
                            !.ids = <<c.selectedToken.id>> \o @,
                            !.steps = <<Step(start, pos, validTokens,
                                             Some(c.selectedToken))>> \o @] :
                         rest \in TokenizeSegment(t, segmentText, start,
                                     pos + c.selectedToken.length, opts, c.rng)}
                        : c \in choices}

\* The loop over the segments, lines 679-759.
RECURSIVE TokenizeSegments(_, _, _, _, _)
TokenizeSegments(t, s, segments, opts, rng) ==
    IF segments = <<>> THEN {[ids |-> <<>>, steps |-> <<>>]}
    ELSE LET segment == Head(segments)
         IN  IF segment.isSpecial
             THEN {[rest EXCEPT !.ids = <<segment.tokenId[1]>> \o @] :
                   rest \in TokenizeSegments(t, s, Tail(segments), opts, rng)}
             ELSE UNION {
                    {[ids |-> first.ids \o rest.ids,
                      steps |-> first.steps \o rest.steps] :
                     rest \in TokenizeSegments(t, s, Tail(segments), opts,
                                               first.rng)}
                    : first \in TokenizeSegment(t,
                                   Substring(s, segment.start, segment.end),
                                   segment.start, 0, opts, rng)}

\* An injection that does not look at the addBosToken flag.
BosPrefixUnasked(vocab, opts) ==
    IF vocab.bos_token_id # None THEN <<vocab.bos_token_id[1]>> ELSE <<>>

\* if (opts.addBosToken && this.vocabulary.bos_token_id !== undefined)
BosPrefix(vocab, opts) ==
    IF opts.addBosToken /\ vocab.bos_token_id # None
    THEN <<vocab.bos_token_id[1]>> ELSE <<>>

\* if (opts.addEosToken && this.vocabulary.eos_token_id !== undefined)
EosSuffix(vocab, opts) ==
    IF opts.addEosToken /\ vocab.eos_token_id # None
    THEN <<vocab.eos_token_id[1]>> ELSE <<>>

\* A tokenize that never looks for special tokens.
SpecialTokenPositionsNone(m, s, opts) == <<>>

\* const specialTokenPositions = preserveSpecialTokens ? findSpecialTokens(text) : []
SpecialTokenPositions(m, s, opts) ==
    IF EffectivePreserve(opts) THEN findSpecialTokens(m, s) ELSE <<>>

\* tokenize(text, options): the set of [tokens, segments, steps] it may
\* return and do.
Tokenize(vocab, t, m, s, opts) ==
    LET segments == BuildSegments(SpecialTokenPositions(m, s, opts), s)
    IN  {[tokens |-> BosPrefix(vocab, opts) \o body.ids \o EosSuffix(vocab, opts),
          segments |-> segments,
          steps |-> body.steps] :
         body \in TokenizeSegments(t, s, segments, opts, MakeRng(opts))}

\* A conversion that writes a missing token out as the word undefined.
TokenTextCoerced(vocab, id) == TokenAt(vocab, id)

\* detokenize: tokenIds.map(id => this.vocabulary.tokens[id] || "").join("")
TokenTextOrEmpty(vocab, id) ==
    IF Truthy(TokenAt(vocab, id)) THEN TokenAt(vocab, id) ELSE <<>>

detokenize(vocab, tokenIds) ==
    Concat([i \in 1..Len(tokenIds) |-> TokenTextOrEmpty(vocab, tokenIds[i])])

\* getToken(tokenId), lines 781-783: undefined for a missing ID.
getToken(vocab, tokenId) == TokenAt(vocab, tokenId)

\* An index lookup that counts from 1.
getTokenIdOneBased(vocab, str) ==
    IF \E i \in DOMAIN vocab.tokens : vocab.tokens[i] = str
    THEN CHOOSE i \in DOMAIN vocab.tokens :
            /\ vocab.tokens[i] = str
            /\ \A j \in DOMAIN vocab.tokens : vocab.tokens[j] = str => i <= j
    ELSE 0 - 1

\* getTokenId(text), lines 788-790: this.vocabulary.tokens.indexOf(text).
getTokenId(vocab, str) ==
    IF \E i \in DOMAIN vocab.tokens : vocab.tokens[i] = str
    THEN (CHOOSE i \in DOMAIN vocab.tokens :
            /\ vocab.tokens[i] = str
            /\ \A j \in DOMAIN vocab.tokens : vocab.tokens[j] = str => i <= j) - 1
    ELSE 0 - 1

(***************************************************************************)
(* The inputs: vocabularies, each with the alphabet its texts are drawn    *)
(* from and further texts (those of the tests), and the options.           *)
(***************************************************************************)
Vocabulary(toks, bos, eos, specialIds) ==
    [tokens |-> toks, bos_token_id |-> bos, eos_token_id |-> eos,
     special_token_ids |-> specialIds]

\* mod_test.ts, "multiple valid tokenizations": a, b, ab.
VocabAB ==
    Vocabulary(<< <<"a">>, <<"b">>, <<"a", "b">> >>, None, None, <<>>)

\* Two special tokens, ab and bc, whose occurrences overlap in "abc"; c has
\* no special meaning.  a and abc start at the same position.
VocabOverlap ==
    Vocabulary(<< <<"a">>, <<"b">>, <<"c">>, <<"a", "b">>, <<"b", "c">> >>,
               None, None, <<3, 4>>)

\* mod_test.ts, "disable special token preservation":
\* <, s, >, <s>, h, e, l, o, hello; <s> is BOS and special.
VocabHello ==
    Vocabulary(<< <<"<">>, <<"s">>, <<">">>, <<"<", "s", ">">>, <<"h">>,
                  <<"e">>, <<"l">>, <<"o">>, <<"h", "e", "l", "l", "o">> >>,
               Some(3), None, <<3>>)

\* As mod_test.ts, "add BOS/EOS tokens" and "special tokens preserved":
\* [ is BOS, ] is EOS, ab is a further special token.
VocabBosEos ==
    Vocabulary(<< <<"[">>, <<"]">>, <<"a">>, <<"b">>, <<"a", "b">> >>,
               Some(0), Some(1), <<4>>)

\* An astral character (one character, two code units) as a token.
VocabAstral ==
    Vocabulary(<< <<"HI", "LO">>, <<"a">> >>, None, None, <<>>)

\* An empty token, a duplicate, no token for b, an empty special token, a
\* special ID and an EOS ID outside the vocabulary.
VocabDegenerate ==
    Vocabulary(<< <<>>, <<"a">>, <<"a">>, <<"a", "b">> >>,
               None, Some(7), <<0, 9>>)

Fixture(vocab, alphabet, texts) ==
    [vocab |-> vocab, alphabet |-> alphabet, texts |-> texts]

Fixtures ==
    {Fixture(VocabAB, {"a", "b"}, {<<"a", "b", "a", "b">>}),
     Fixture(VocabOverlap, {"a", "b", "c"}, {}),
     Fixture(VocabHello, {"<", "s", ">"},
             {<<"<", "s", ">", "h", "e", "l", "l", "o">>}),
     Fixture(VocabBosEos, {"[", "a", "b"}, {}),
     Fixture(VocabAstral, {"HI", "LO", "a"}, {}),
     Fixture(VocabDegenerate, {"a", "b"}, {})}

Texts(fixture) == StringsUpTo(fixture.alphabet, MaxTextLen) \cup fixture.texts

Strategies == {"random", "shortest", "longest", "ideal-length"}

\* mod_test.ts, "seed reproducibility" and "ideal length strategy".
Seeds == {12345, 42}

Options ==
    {o \in [strategy : Strategies,
            idealLength : {None, Some(1)},
            seed : {None} \cup {Some(seed) : seed \in Seeds},
            addBosToken : BOOLEAN,
            addEosToken : BOOLEAN,
            preserveSpecialTokens : {None, Some(FALSE)}] :
        o.idealLength # None => o.strategy = "ideal-length"}

(***************************************************************************)
(* The grammar compiler (src/grammar/readme.md).  A Rule is a record with  *)
(* a type field; a bare JavaScript string used as a rule is the record of  *)
(* type "string".  The body of a builder function `$ => ...` is a rule     *)
(* tree in which the expression `$.name` is a leaf of type "ref".          *)
(***************************************************************************)
\* A bare string in the place of a rule.
Lit(value) == [type |-> "string", value |-> value]

\* The expression $.name in the body of a builder function.
Ref(name) == [type |-> "ref", name |-> name]

\* A builder function $ => body.
Fn(body) == [type |-> "function", body |-> body]

\* What a property read of a missing key gives.
UndefinedRule == [type |-> "undefined"]

seq(rs) == [type |-> "sequence", rules |-> rs]

choice(rs) == [type |-> "choice", rules |-> rs]

repeat0(rule) == [type |-> "repeat0", rule |-> rule]

repeat1(rule) == [type |-> "repeat1", rule |-> rule]

repeat(rule, min, max) == [type |-> "repeat", rule |-> rule, min |-> min, max |-> max]

optional(rule) == [type |-> "optional", rule |-> rule]

range(r) == [type |-> "range", range |-> r]

named(name) == [type |-> "named", name |-> name]

\* A thrown error travels through string building as this mark.
Thrown == <<"THROW">>

Throws(s) == \E i \in 1..Len(s) : s[i] = "THROW"

\* A join that leaves the separator out.
RECURSIVE JoinTight(_, _)
JoinTight(parts, separator) ==
    IF Len(parts) = 0 THEN <<>> ELSE parts[1] \o JoinTight(Tail(parts), separator)

\* Array.prototype.join
RECURSIVE JoinWith(_, _)
JoinWith(parts, separator) ==
    IF Len(parts) = 0 THEN <<>>
    ELSE IF Len(parts) = 1 THEN parts[1]
    ELSE parts[1] \o separator \o JoinWith(Tail(parts), separator)

Digits == <<"0", "1", "2", "3", "4", "5", "6", "7", "8", "9">>

Digit(d) == Digits[d + 1]

\* `${n}` for an integer n.
RECURSIVE NumberToString(_)
NumberToString(n) ==
    IF n < 0 THEN <<"-">> \o NumberToString(0 - n)
    ELSE IF n < 10 THEN <<Digit(n)>>
    ELSE NumberToString(n \div 10) \o <<Digit(n % 10)>>

\* A quoting that escapes the double quotes of the string.
QuotedEscaped(str) ==
    <<"\"">> \o Concat([i \in 1..Len(str) |->
                 IF str[i] = "\"" THEN <<"\\", "\"">> ELSE <<str[i]>>])
           \o <<"\"">>

\* `"${e}"`: the string between double quotes, lines 64, 72 and 87.
Quoted(str) == <<"\"">> \o str \o <<"\"">>

\* A rendering of the bounds that writes {n} for {n,n}.
RepeatBoundsCollapsed(min, max) ==
    IF min = max THEN <<"{">> \o NumberToString(min) \o <<"}">>
    ELSE <<"{">> \o NumberToString(min) \o <<",">> \o NumberToString(max)
            \o <<"}">>

\* `{${$.min},${$.max}}`, line 78.
RepeatBounds(min, max) ==
    <<"{">> \o NumberToString(min) \o <<",">> \o NumberToString(max) \o <<"}">>

\* stringify(rule), lines 58-88.
RECURSIVE stringify(_)
stringify(rule) ==
    LET each(rs) == [i \in 1..Len(rs) |->
            IF rs[i].type = "string" THEN Quoted(rs[i].value)
            ELSE stringify(rs[i])]
    IN  CASE rule.type = "sequence" -> JoinWith(each(rule.rules), <<" ">>)
          [] rule.type = "choice" ->
                <<"(">> \o JoinWith(each(rule.rules), <<" ", "|", " ">>) \o <<")">>
          [] rule.type = "repeat" ->
                stringify(rule.rule) \o RepeatBounds(rule.min, rule.max)
          [] rule.type = "repeat0" -> stringify(rule.rule) \o <<"*">>
          [] rule.type = "repeat1" -> stringify(rule.rule) \o <<"+">>
          [] rule.type = "optional" -> stringify(rule.rule) \o <<"?">>
          [] rule.type = "range" -> <<"[">> \o rule.range \o <<"]">>
          [] rule.type = "named" -> rule.name
          [] rule.type = "string" -> Quoted(rule.value)
          [] OTHER -> Thrown

\* A property key that is a canonical array index: Object.entries lists
\* these first, in ascending numeric order.
IsDigit(c) == \E d \in 0..9 : Digit(d) = c

DigitValue(c) == CHOOSE d \in 0..9 : Digit(d) = c

RECURSIVE KeyNumber(_)
KeyNumber(name) ==
    IF Len(name) = 0 THEN 0
    ELSE 10 * KeyNumber(SubSeq(name, 1, Len(name) - 1)) + DigitValue(name[Len(name)])

IsIndexKey(name) ==
    /\ Len(name) \in 1..9
    /\ \A i \in 1..Len(name) : IsDigit(name[i])
    /\ (Len(name) > 1 => name[1] # "0")

\* Object.entries(rules): `rules` is the mapping in insertion order, a
\* sequence of [name, rule] with distinct names.
RECURSIVE SortIndexKeys(_)
SortIndexKeys(entries) ==
    IF Len(entries) = 0 THEN <<>>
    ELSE LET least == CHOOSE i \in 1..Len(entries) :
                 \A j \in 1..Len(entries) :
                     KeyNumber(entries[i].name) <= KeyNumber(entries[j].name)
         IN  <<entries[least]>> \o
             SortIndexKeys(SubSeq(entries, 1, least - 1)
                           \o SubSeq(entries, least + 1, Len(entries)))

ObjectEntries(mapping) ==
    SortIndexKeys(SelectSeq(mapping, LAMBDA e : IsIndexKey(e.name)))
        \o SelectSeq(mapping, LAMBDA e : ~IsIndexKey(e.name))

\* A proxy on which no name is found.
ProxyGetUndefined(proxy, name) == UndefinedRule

\* proxy[name], a property read.
ProxyGet(proxy, name) ==
    IF \E i \in 1..Len(proxy) : proxy[i].name = name
    THEN proxy[CHOOSE i \in 1..Len(proxy) : proxy[i].name = name].rule
    ELSE UndefinedRule

\* The proxy of grammar(), lines 104-110.
ProxyInline(mapping, opts) == mapping

Proxy(mapping, opts) ==
    IF opts.compileMode = Some("inline") THEN mapping
    ELSE LET entries == ObjectEntries(mapping)
         IN  [i \in 1..Len(entries) |->
                 [name |-> entries[i].name, rule |-> named(entries[i].name)]]

\* rule(proxy): the body of a builder with every $.name read from the proxy.
RECURSIVE CallBuilder(_, _)
CallBuilder(body, proxy) ==
    CASE body.type = "ref" -> ProxyGet(proxy, body.name)
      [] body.type \in {"sequence", "choice"} ->
            [body EXCEPT !.rules =
                [i \in 1..Len(body.rules) |-> CallBuilder(body.rules[i], proxy)]]
      [] body.type \in {"repeat", "repeat0", "repeat1", "optional"} ->
            [body EXCEPT !.rule = CallBuilder(body.rule, proxy)]
      [] OTHER -> body

\* The left-hand side of a production, line 114.
ProductionName(name, opts) ==
    IF opts.prefix # None /\ opts.prefix[1] # <<>>
    THEN opts.prefix[1] \o <<"-">> \o name
    ELSE name

\* The body handed to stringify for one entry, line 115.
RuleBody(rule, proxy) ==
    IF rule.type = "function" THEN CallBuilder(rule.body, proxy) ELSE rule

\* grammar(rules, options), lines 90-121.
grammar(mapping, opts) ==
    LET proxy == Proxy(mapping, opts)
        entries == ObjectEntries(mapping)
        g == [i \in 1..Len(entries) |->
                ProductionName(entries[i].name, opts) \o <<" ", ":", ":", "=", " ">>
                    \o stringify(RuleBody(entries[i].rule, proxy))]
    IN  IF \E i \in 1..Len(g) : Throws(g[i])
        THEN [threw |-> TRUE, text |-> <<>>]
        ELSE [threw |-> FALSE, text |-> JoinWith(g, <<"\n">>)]

(***************************************************************************)
(* Grammars handed to grammar(): up to MaxRules rules with distinct names, *)
(* two of the names being array indices ("2", "10").  The first rule of a  *)
(* mapping is any rule or builder of depth at most one over the leaves;    *)
(* the others are a string, a range, or a builder naming the first rule.   *)
(***************************************************************************)
RuleNames == {<<"x">>, <<"2">>, <<"1", "0">>}

\* A name that is no key of any mapping.
MissingName == <<"z">>

NameOrders ==
    {order \in UNION {[1..n -> RuleNames] : n \in 1..MaxRules} :
        \A i, j \in 1..Len(order) : order[i] = order[j] => i = j}

Leaves(keys) ==
    {Lit(<<"a">>), Lit(<<"x">>)} \cup {Ref(n) : n \in keys \cup {MissingName}}

Templates(keys) ==
    Leaves(keys)
        \cup {optional(l) : l \in Leaves(keys)}
        \cup {repeat0(l) : l \in Leaves(keys)}
        \cup {repeat1(l) : l \in Leaves(keys)}
        \cup {repeat(l, 0, 1) : l \in Leaves(keys)}
        \cup {seq(<<l, m>>) : l, m \in Leaves(keys)}
        \cup {choice(<<l, m>>) : l, m \in Leaves(keys)}

RECURSIVE RefCount(_, _)
RefCount(body, name) ==
    CASE body.type = "ref" -> IF body.name = name THEN 1 ELSE 0
      [] body.type \in {"sequence", "choice"} ->
            Sum([i \in 1..Len(body.rules) |-> RefCount(body.rules[i], name)],
                Len(body.rules))
      [] body.type \in {"repeat", "repeat0", "repeat1", "optional"} ->
            RefCount(body.rule, name)
      [] OTHER -> 0

HasRef(body, keys) == \E n \in keys \cup {MissingName} : RefCount(body, n) > 0

FirstRules(keys) ==
    {Fn(t) : t \in Templates(keys)}
        \cup {t \in Templates(keys) : ~HasRef(t, keys)}

OtherRules(order) ==
    {Lit(<<"a">>), range(<<"a", "-", "z">>), Fn(Ref(order[1]))}

Mappings ==
    UNION {
        {[i \in 1..Len(order) |->
            [name |-> order[i],
             rule |-> IF i = 1 THEN first ELSE others[i - 1]]] :
          first \in FirstRules({order[i] : i \in 1..Len(order)}),
          others \in [1..(Len(order) - 1) -> OtherRules(order)]} :
        order \in NameOrders}

GrammarOptions ==
    [compileMode : {None, Some("inline")},
     prefix : {None, Some(<<>>), Some(<<"p">>)}]

(***************************************************************************)
(* Rule trees handed to stringify: leaves, one operator over the leaves,   *)
(* and one operator over those.  A sequence or choice has up to MaxArity   *)
(* elements; the counts of a repeat are -1, 10 and 0..MaxRepeat.           *)
(***************************************************************************)
RuleLeaves ==
    {Lit(<<"a">>), Lit(<<"a", "\"", "b">>), Lit(<<>>),
     range(<<"a", "-", "z">>), named(<<"x">>)}

RepeatCounts == {0 - 1, 10} \cup (0..MaxRepeat)

Postfixed(S) ==
    {optional(r) : r \in S} \cup {repeat0(r) : r \in S}
        \cup {repeat1(r) : r \in S}
        \cup {repeat(r, m, n) : r \in S,
                                m \in RepeatCounts, n \in RepeatCounts}

ListsOf(S) == UNION {[1..n -> S] : n \in 0..MaxArity}

Grouped(S) == {seq(rs) : rs \in ListsOf(S)} \cup {choice(rs) : rs \in ListsOf(S)}

RuleTrees1 == RuleLeaves \cup Postfixed(RuleLeaves) \cup Grouped(RuleLeaves)

\* The elements of the sequences and choices of the second level.
GroupElements ==
    RuleLeaves
        \cup {optional(r) : r \in RuleLeaves}
        \cup {repeat1(r) : r \in RuleLeaves}
        \cup {seq(<<Lit(<<"a">>), Lit(<<"b">>)>>),
              choice(<<Lit(<<"a">>), Lit(<<"b">>)>>)}

RuleTrees ==
    RuleTrees1
        \cup {optional(r) : r \in RuleTrees1} \cup {repeat0(r) : r \in RuleTrees1}
        \cup {repeat1(r) : r \in RuleTrees1}
        \cup {repeat(r, n, n + 1) : r \in RuleTrees1, n \in 0..MaxRepeat}
        \cup Grouped(GroupElements)

(***************************************************************************)
(* The compression utilities (compression.ts, lines 1-418): functions of a *)
(* tokenizer and a text that call tokenize and keep nothing.  A ratio is   *)
(* the pair <<numerator, denominator>> of the division the code makes.     *)
(***************************************************************************)
\* tokenize(text, "shortest"): a strategy string in the place of options.
StrategyOnly(strategy) ==
    [strategy |-> strategy, idealLength |-> None, seed |-> None,
     addBosToken |-> FALSE, addEosToken |-> FALSE,
     preserveSpecialTokens |-> None]

\* tokens.map(id => tokenizer.getToken(id) || "")
TokenStrings(vocab, toks) ==
    [i \in 1..Len(toks) |-> TokenTextOrEmpty(vocab, toks[i])]

\* The CompressionResult built from the IDs a tokenize call returned.
CompressionResult(vocab, s, toks) ==
    LET tokenStrings == TokenStrings(vocab, toks)
    IN  [text |-> s,
         tokens |-> toks,
         tokenStrings |-> tokenStrings,
         tokenCount |-> Len(toks),
         charCount |-> Len(s),
         compressionRatio |-> <<Len(s), Len(toks)>>,
         avgTokenLength |->
             <<Sum([i \in 1..Len(toks) |-> Len(tokenStrings[i])], Len(toks)),
               Len(toks)>>]

\* compress(tokenizer, text, options), lines 41-59.
compress(vocab, t, m, s, opts) ==
    {CompressionResult(vocab, s, outcome.tokens) :
        outcome \in Tokenize(vocab, t, m, s, [opts EXCEPT !.strategy = "longest"])}

\* Math.min(1000, tokenizer.vocabSize), line 94.
SampleLimit == 1000

\* Math.max(0, Math.min(1, compressionFactor)), line 87; a factor is the
\* ratio <<numerator, denominator>> with a positive denominator.
ClampFactor(factor) ==
    IF factor[1] < 0 THEN <<0, 1>>
    ELSE IF factor[1] > factor[2] THEN <<1, 1>>
    ELSE factor

\* The lengths of the truthy tokens among the first sampleSize, lines 94-101.
SampledLengths(vocab) ==
    {Len(TokenAt(vocab, i)) :
        i \in {j \in 0..(MinOf({SampleLimit, vocabSize(vocab)}) - 1) :
                  Truthy(TokenAt(vocab, j))}}

\* minTokenLen and maxTokenLen after the loop: both start at 1.
MinTokenLen(vocab) == MinOf(SampledLengths(vocab) \cup {1})

MaxTokenLen(vocab) == MaxOf(SampledLengths(vocab) \cup {1})

\* Math.round(minTokenLen + factor * (maxTokenLen - minTokenLen)), line 106:
\* Math.round is the floor of the value plus one half.
IdealLengthFor(vocab, compressionFactor) ==
    LET factor == ClampFactor(compressionFactor)
        num == MinTokenLen(vocab) * factor[2]
                 + factor[1] * (MaxTokenLen(vocab) - MinTokenLen(vocab))
    IN  ((2 * num) + factor[2]) \div (2 * factor[2])

\* compressWithFactor(tokenizer, text, compressionFactor, options), 80-126.
compressWithFactor(vocab, t, m, s, compressionFactor, opts) ==
    {CompressionResult(vocab, s, outcome.tokens) :
        outcome \in Tokenize(vocab, t, m, s,
            [opts EXCEPT !.strategy = "ideal-length",
                         !.idealLength =
                             Some(IdealLengthFor(vocab, compressionFactor))])}

\* The factors handed to compressWithFactor: 0, 1/4, 1/2, 1, and one on
\* each side of [0, 1].
Factors == {<<0, 1>>, <<1, 4>>, <<1, 2>>, <<1, 1>>, <<0 - 1, 1>>, <<2, 1>>}

(***************************************************************************)
(* compressWithGradient, lines 141-207.  The weight of a candidate is      *)
(* Math.exp(grad * length * 2), an irrational number: the model keeps, for *)
(* each weight, a lower and an upper rational bound, and a draw that the   *)
(* bounds do not decide may select either candidate.  Dividing every       *)
(* weight by the least one leaves the normalized weights as they are, so   *)
(* the weights are the powers base^k of base = e^(2 * |grad|), k being the *)
(* distance of the length from the least favoured length.                  *)
(***************************************************************************)
\* Math.max(-1, Math.min(1, gradient)), line 148.
ClampGradient(gradient) ==
    IF gradient[1] < 0 - gradient[2] THEN <<0 - 1, 1>>
    ELSE IF gradient[1] > gradient[2] THEN <<1, 1>>
    ELSE gradient

\* <<lo, hi, den>> with lo / den <= e^(2 * |grad|) <= hi / den, for the
\* clamped gradients 0, 1/2 and 1 in absolute value: 1, e = 2.718..., and
\* e^2 = 7.389...
ExpBase(grad) ==
    IF grad[1] = 0 THEN <<1, 1, 1>>
    ELSE IF 2 * Abs(grad[1]) = grad[2] THEN <<27, 28, 10>>
    ELSE <<73, 74, 10>>

RECURSIVE Power(_, _)
Power(b, k) == IF k = 0 THEN 1 ELSE b * Power(b, k - 1)

\* The bounds [lo, hi] of the weights of the candidates, over one common
\* denominator.
GradientWeights(validTokens, grad) ==
    LET n == Len(validTokens)
        base == ExpBase(grad)
        shortest == MinOf(Lengths(validTokens))
        longest == MaxOf(Lengths(validTokens))
        k == [i \in 1..n |->
                 IF grad[1] > 0 THEN validTokens[i].length - shortest
                 ELSE IF grad[1] < 0 THEN longest - validTokens[i].length
                 ELSE 0]
        spread == longest - shortest
    IN  [lo |-> [i \in 1..n |->
                    Power(base[1], k[i]) * Power(base[3], spread - k[i])],
         hi |-> [i \in 1..n |->
                    Power(base[2], k[i]) * Power(base[3], spread - k[i])]]

\* Lines 176-190: the first i with rand < cumulativeWeight, the last
\* candidate when there is none; the set of the candidates the bounds allow.
SelectByGradient(validTokens, grad, r) ==
    LET n == Len(validTokens)
        w == GradientWeights(validTokens, grad)
        restLo(i) == Sum(w.lo, n) - Sum(w.lo, i)
        restHi(i) == Sum(w.hi, n) - Sum(w.hi, i)
        surely(i) ==
            LessThanRatio(r, Sum(w.lo, i), Sum(w.lo, i) + restHi(i))
        maybe(i) ==
            LessThanRatio(r, Sum(w.hi, i), Sum(w.hi, i) + restLo(i))
    IN  {validTokens[i] :
            i \in {j \in 1..n :
                      /\ maybe(j) \/ j = n
                      /\ \A h \in 1..(j - 1) : ~surely(h)}}

\* The while loop of lines 157-194 from pos on: the IDs pushed and, per
\* iteration, the step taken.
RECURSIVE GradientLoop(_, _, _, _, _)
GradientLoop(t, s, pos, grad, rng) ==
    IF pos >= Len(s) THEN {[ids |-> <<>>, steps |-> <<>>]}
    ELSE LET validTokens == findValidTokens(t, s, pos)
         IN  IF validTokens = <<>>
             THEN {[rest EXCEPT
                      !.steps = <<Step(0, pos, validTokens, None)>> \o @] :
                   rest \in GradientLoop(t, s, pos + 1, grad, rng)}
             ELSE LET choices ==
                        UNION {{[selectedToken |-> selectedToken,
                                 rng |-> draw.rng] :
                                   selectedToken \in
                                       SelectByGradient(validTokens, grad,
                                                        draw.value)}
                               : draw \in Draws(rng)}
                  IN  UNION {
                        {[rest EXCEPT
                            !.ids = <<c.selectedToken.id>> \o @,
                            !.steps = <<Step(0, pos, validTokens,
                                             Some(c.selectedToken))>> \o @] :
                         rest \in GradientLoop(t, s,
                                     pos + c.selectedToken.length, grad, c.rng)}
                        : c \in choices}

\* compressWithGradient(tokenizer, text, gradient, options): the results it
\* may return, each with the steps of its loop.
compressWithGradient(vocab, t, s, gradient, opts) ==
    {[result |-> CompressionResult(vocab, s, outcome.ids),
      steps |-> outcome.steps] :
        outcome \in GradientLoop(t, s, 0, ClampGradient(gradient),
                                 MakeRng(opts))}

\* The gradients handed to compressWithGradient: those of example-factor.ts
\* (-1, -1/2, 0, 1/2, 1) and one on each side of [-1, 1].
Gradients ==
    {<<0 - 2, 1>>, <<0 - 1, 1>>, <<0 - 1, 2>>, <<0, 1>>, <<1, 2>>, <<1, 1>>,
     <<2, 1>>}

\* decompress(tokenizer, tokens), lines 228-233.
decompress(vocab, toks) == detokenize(vocab, toks)

\* compareCompression(tokenizer, text), lines 238-264.
compareCompression(vocab, t, m, s) ==
    {[text |-> s,
      mostCompressed |-> mostCompressed,
      leastCompressed |-> CompressionResult(vocab, s, least.tokens),
      improvementFactor |-> <<Len(least.tokens), mostCompressed.tokenCount>>] :
        mostCompressed \in compress(vocab, t, m, s, StrategyOnly(Undefined)),
        least \in Tokenize(vocab, t, m, s, StrategyOnly("shortest"))}

\* The Map of lines 400-407: one [length, count] per token length, in the
\* order the lengths were first seen.
RECURSIVE TokenLengthDistribution(_, _, _)
TokenLengthDistribution(vocab, toks, dist) ==
    IF toks = <<>> THEN dist
    ELSE LET tokenStr == TokenAt(vocab, Head(toks))
             len == Len(tokenStr)
             next ==
                 IF ~Truthy(tokenStr) THEN dist
                 ELSE IF \E i \in DOMAIN dist : dist[i].length = len
                 THEN [i \in DOMAIN dist |->
                          IF dist[i].length = len
                          THEN [dist[i] EXCEPT !.count = @ + 1] ELSE dist[i]]
                 ELSE Append(dist, [length |-> len, count |-> 1])
         IN  TokenLengthDistribution(vocab, Tail(toks), next)

\* getCompressionStats(tokenizer, text), lines 394-418.
getCompressionStats(vocab, t, m, s) ==
    {[totalChars |-> Len(s),
      minTokens |-> Len(minTokens.tokens),
      maxTokens |-> Len(maxTokens.tokens),
      bestRatio |-> <<Len(s), Len(minTokens.tokens)>>,
      worstRatio |-> <<Len(s), Len(maxTokens.tokens)>>,
      tokenLengthDistribution |->
          TokenLengthDistribution(vocab, minTokens.tokens, <<>>)] :
        minTokens \in Tokenize(vocab, t, m, s, StrategyOnly("longest")),
        maxTokens \in Tokenize(vocab, t, m, s, StrategyOnly("shortest"))}

\* A segment of selectiveCompress (SelectiveCompressionSegment, 308-318).
Segment(start, end, strategy, idealLength) ==
    [start |-> start, end |-> end, strategy |-> strategy,
     idealLength |-> idealLength]

\* [...segments].sort((a, b) => a.start - b.start), line 327: a stable sort.
SortSegments(segments, s) == SortByStart(segments, 0, Len(s))

\* segmentOpts, lines 346-348.
SegmentOptions(segment) ==
    IF segment.strategy = "ideal-length"
    THEN [StrategyOnly(segment.strategy) EXCEPT !.idealLength =
             IF segment.idealLength = None \/ segment.idealLength = Some(0)
             THEN Some(4) ELSE segment.idealLength]
    ELSE StrategyOnly(segment.strategy)

\* The IDs a tokenize call on a piece of the text may return.
PieceTokens(vocab, t, m, piece, opts) ==
    {outcome.tokens : outcome \in Tokenize(vocab, t, m, piece, opts)}

\* The loop of lines 335-362 from lastPos on: the IDs it may collect.
RECURSIVE SelectiveLoop(_, _, _, _, _, _, _)
SelectiveLoop(vocab, t, m, s, sortedSegments, lastPos, defaultStrategy) ==
    IF sortedSegments = <<>>
    THEN IF lastPos < Len(s)
         THEN PieceTokens(vocab, t, m, Substring(s, lastPos, Len(s)),
                          StrategyOnly(defaultStrategy))
         ELSE {<<>>}
    ELSE LET segment == Head(sortedSegments)
             before ==
                 IF lastPos < segment.start
                 THEN PieceTokens(vocab, t, m,
                                  Substring(s, lastPos, segment.start),
                                  StrategyOnly(defaultStrategy))
                 ELSE {<<>>}
             within ==
                 PieceTokens(vocab, t, m,
                             Substring(s, segment.start, segment.end),
                             SegmentOptions(segment))
         IN  {b \o w \o rest :
                 b \in before, w \in within,
                 rest \in SelectiveLoop(vocab, t, m, s, Tail(sortedSegments),
                                        segment.end, defaultStrategy)}

\* selectiveCompress(tokenizer, text, segments, defaultStrategy), 320-374.
selectiveCompress(vocab, t, m, s, segments, defaultStrategy) ==
    {CompressionResult(vocab, s, allTokens) :
        allTokens \in SelectiveLoop(vocab, t, m, s, SortSegments(segments, s),
                                    0, defaultStrategy)}

\* compression_test.ts, "selective compression": a, b, c, ab, abc, bc.
VocabSelective ==
    Vocabulary(<< <<"a">>, <<"b">>, <<"c">>, <<"a", "b">>, <<"a", "b", "c">>,
                  <<"b", "c">> >>, None, None, <<>>)

\* The segments handed to selectiveCompress: in bounds, start <= end.
Segments(s) ==
    UNION {{Segment(start, end, strategy, None) :
               end \in start..Len(s), strategy \in {"shortest", "longest"}} :
           start \in 0..Len(s)}

SegmentLists(s) == UNION {[1..n -> Segments(s)] : n \in 0..MaxSegments}

\* compression_test.ts-like vocabularies.  a, b, aa, abb: "aabb" is a + abb.
VocabGreedy ==
    Vocabulary(<< <<"a">>, <<"b">>, <<"a", "a">>, <<"a", "b", "b">> >>,
               None, None, <<>>)

\* a, ab, bcd, c, d: no token b, and "abcd" is a + bcd.
VocabGap ==
    Vocabulary(<< <<"a">>, <<"a", "b">>, <<"b", "c", "d">>, <<"c">>, <<"d">> >>,
               None, None, <<>>)

\* ab, abc: no token of one character.
VocabPairs ==
    Vocabulary(<< <<"a", "b">>, <<"a", "b", "c">> >>, None, None, <<>>)

CompressionFixtures ==
    {Fixture(VocabAB, {"a", "b"}, {}),
     Fixture(VocabPairs, {"a", "b"}, {<<"a", "b", "c">>}),
     Fixture(VocabGreedy, {"a", "b"}, {<<"a", "a", "b", "b">>}),
     Fixture(VocabGap, {"a", "c", "d"}, {<<"a", "b", "c", "d">>}),
     Fixture(VocabOverlap, {"a", "b", "c"}, {}),
     Fixture(VocabDegenerate, {"a", "b"}, {})}

\* The options handed to the utilities that take options: a seed or none.
CompressionOptions ==
    {[StrategyOnly(Undefined) EXCEPT !.seed = seed] :
        seed \in {None} \cup {Some(n) : n \in Seeds}}

(***************************************************************************)
(* The state machine: a tokenizer is constructed and handed a text and     *)
(* options; tokenize is called, then detokenize on what it returned.  A    *)
(* rule mapping and options are declared, and grammar is called on them.   *)
(***************************************************************************)
\* new NondeterministicTokenizer(vocabulary), lines 492-496.
Constructed(vocab) ==
    /\ vocabulary = vocab
    /\ trie = buildTrie(vocab)
    /\ specialTokenMap = buildSpecialTokenMap(vocab)

\* Nothing has been tokenized or decoded yet.
NoCalls ==
    /\ tokens = <<>>
    /\ run = [segments |-> <<>>, steps |-> <<>>]
    /\ previous = None
    /\ decoded = <<>>

\* No grammar is being compiled.
NoGrammar ==
    /\ rules = <<>>
    /\ grammarOptions = [compileMode |-> None, prefix |-> None]
    /\ output = [threw |-> FALSE, text |-> <<>>]

\* No stateless function has been called.
NoCall == call = [name |-> "none"]

Init ==
    \E fixture \in Fixtures :
        /\ Constructed(fixture.vocab)
        /\ text \in Texts(fixture)
        /\ options \in Options
        /\ NoCalls
        /\ NoGrammar
        /\ NoCall
        /\ pc = "constructed"

\* tokenizer.tokenize(text, options), the first call on the tokenizer.
TokenizeCall ==
    /\ pc = "constructed"
    /\ \E outcome \in Tokenize(vocabulary, trie, specialTokenMap, text, options) :
          /\ tokens' = outcome.tokens
          /\ run' = [segments |-> outcome.segments, steps |-> outcome.steps]
          /\ previous' = Some([tokens |-> outcome.tokens, later |-> <<>>])
    /\ pc' = "tokenized"
    /\ UNCHANGED <<vocabulary, trie, specialTokenMap, text, options, decoded>>
    /\ UNCHANGED <<grammarVars, call>>

\* A later tokenizer.tokenize(text, options) with the same arguments.
TokenizeAgain ==
    /\ pc = "tokenized"
    /\ Len(previous[1].later) < MaxLaterCalls
    /\ \E outcome \in Tokenize(vocabulary, trie, specialTokenMap, text, options) :
          /\ tokens' = outcome.tokens
          /\ run' = [segments |-> outcome.segments, steps |-> outcome.steps]
    /\ previous' = Some([previous[1] EXCEPT !.later = Append(@, "same")])
    /\ UNCHANGED <<vocabulary, trie, specialTokenMap, text, options, decoded, pc>>
    /\ UNCHANGED <<grammarVars, call>>

\* A later tokenizer.tokenize(text, other) with another seed, or none; what
\* it returns goes to its caller, and nothing of the tokenizer changes.
TokenizeOther ==
    /\ pc = "tokenized"
    /\ Len(previous[1].later) < MaxLaterCalls
    /\ \E other \in Options :
          /\ other.seed # options.seed
          /\ other = [options EXCEPT !.seed = other.seed]
          /\ Tokenize(vocabulary, trie, specialTokenMap, text, other) # {}
    /\ previous' = Some([previous[1] EXCEPT !.later = Append(@, "other")])
    /\ UNCHANGED <<vocabulary, trie, specialTokenMap, text, options, tokens,
                   run, decoded, pc>>
    /\ UNCHANGED <<grammarVars, call>>

\* tokenizer.detokenize(tokens)
DetokenizeCall ==
    /\ pc = "tokenized"
    /\ decoded' = detokenize(vocabulary, tokens)
    /\ pc' = "detokenized"
    /\ UNCHANGED <<vocabulary, trie, specialTokenMap, text, options, tokens,
                   run, previous>>
    /\ UNCHANGED <<grammarVars, call>>

Next == TokenizeCall \/ DetokenizeCall

Spec == Init /\ [][Next]_vars

\* Repeated tokenize calls on one tokenizer.
InitRepeat == Init /\ vocabulary = VocabAB

NextRepeat == TokenizeCall \/ TokenizeAgain \/ TokenizeOther

SpecRepeat == InitRepeat /\ [][NextRepeat]_vars

\* grammar(rules, options) on a declared mapping.
InitGrammar ==
    /\ Constructed(VocabAB)
    /\ text = <<>>
    /\ options = [strategy |-> "random", idealLength |-> None, seed |-> None,
                  addBosToken |-> FALSE, addEosToken |-> FALSE,
                  preserveSpecialTokens |-> None]
    /\ NoCalls
    /\ rules \in Mappings
    /\ grammarOptions \in GrammarOptions
    /\ output = [threw |-> FALSE, text |-> <<>>]
    /\ NoCall
    /\ pc = "declared"

GrammarCall ==
    /\ pc = "declared"
    /\ output' = grammar(rules, grammarOptions)
    /\ pc' = "compiled"
    /\ UNCHANGED <<tokenizerVars, rules, grammarOptions, call>>

NextGrammar == GrammarCall

SpecGrammar == InitGrammar /\ [][NextGrammar]_vars

\* The compression utilities called on a constructed tokenizer and a text.
InitCompression ==
    \E fixture \in CompressionFixtures :
        /\ Constructed(fixture.vocab)
        /\ text \in Texts(fixture)
        /\ options \in CompressionOptions
        /\ NoCalls
        /\ NoGrammar
        /\ NoCall
        /\ pc = "constructed"

\* compress(tokenizer, text, options)
CompressCall ==
    /\ pc = "constructed"
    /\ \E result \in compress(vocabulary, trie, specialTokenMap, text, options) :
          call' = [name |-> "compress", result |-> result]
    /\ pc' = "called"
    /\ UNCHANGED <<tokenizerVars, grammarVars>>

\* compareCompression(tokenizer, text)
CompareCompressionCall ==
    /\ pc = "constructed"
    /\ \E result \in compareCompression(vocabulary, trie, specialTokenMap, text) :
          call' = [name |-> "compareCompression", result |-> result]
    /\ pc' = "called"
    /\ UNCHANGED <<tokenizerVars, grammarVars>>

\* getCompressionStats(tokenizer, text)
GetCompressionStatsCall ==
    /\ pc = "constructed"
    /\ \E result \in getCompressionStats(vocabulary, trie, specialTokenMap, text) :
          call' = [name |-> "getCompressionStats", result |-> result]
    /\ pc' = "called"
    /\ UNCHANGED <<tokenizerVars, grammarVars>>

\* compressWithFactor(tokenizer, text, compressionFactor, options)
CompressWithFactorCall ==
    /\ pc = "constructed"
    /\ \E compressionFactor \in Factors :
          \E result \in compressWithFactor(vocabulary, trie, specialTokenMap,
                                           text, compressionFactor, options) :
              call' = [name |-> "compressWithFactor",
                       compressionFactor |-> compressionFactor,
                       idealLength |->
                           IdealLengthFor(vocabulary, compressionFactor),
                       result |-> result]
    /\ pc' = "called"
    /\ UNCHANGED <<tokenizerVars, grammarVars>>

NextCompression ==
    \/ CompressCall
    \/ CompressWithFactorCall
    \/ CompareCompressionCall
    \/ GetCompressionStatsCall

SpecCompression == InitCompression /\ [][NextCompression]_vars

\* compressWithGradient on tokenizers with and without special tokens, with
\* and without a seed, the injection flags both set or both clear.
GradientFixtures ==
    {Fixture(VocabAB, {"a", "b"}, {}),
     Fixture(VocabGap, {"a", "c", "d"}, {<<"a", "b", "c", "d">>}),
     Fixture(VocabOverlap, {"a", "b", "c"}, {}),
     Fixture(VocabBosEos, {"[", "a", "b"}, {}),
     Fixture(VocabAstral, {"HI", "LO", "a"}, {}),
     Fixture(VocabDegenerate, {"a", "b"}, {})}

GradientOptions ==
    {[StrategyOnly(Undefined) EXCEPT !.seed = seed,
                                     !.addBosToken = inject,
                                     !.addEosToken = inject] :
        seed \in {None, Some(42)}, inject \in BOOLEAN}

InitGradient ==
    \E fixture \in GradientFixtures :
        /\ Constructed(fixture.vocab)
        /\ text \in Texts(fixture)
        /\ options \in GradientOptions
        /\ NoCalls
        /\ NoGrammar
        /\ NoCall
        /\ pc = "constructed"

\* compressWithGradient(tokenizer, text, gradient, options)
CompressWithGradientCall ==
    /\ pc = "constructed"
    /\ \E gradient \in Gradients :
          \E outcome \in compressWithGradient(vocabulary, trie, text,
                                              gradient, options) :
              call' = [name |-> "compressWithGradient",
                       gradient |-> gradient,
                       steps |-> outcome.steps,
                       result |-> outcome.result]
    /\ pc' = "called"
    /\ UNCHANGED <<tokenizerVars, grammarVars>>

NextGradient == CompressWithGradientCall

SpecGradient == InitGradient /\ [][NextGradient]_vars

\* selectiveCompress on the tokenizer and (half of) the text of its test.
InitSelective ==
    /\ Constructed(VocabSelective)
    /\ text \in {<<"a", "b", "c">>, <<"b", "c">>}
    /\ options = StrategyOnly("longest")
    /\ NoCalls
    /\ NoGrammar
    /\ NoCall
    /\ pc = "constructed"

\* selectiveCompress(tokenizer, text, segments, defaultStrategy)
SelectiveCompressCall ==
    /\ pc = "constructed"
    /\ \E segments \in SegmentLists(text), defaultStrategy \in {"longest", "shortest"} :
          \E result \in selectiveCompress(vocabulary, trie, specialTokenMap,
                                          text, segments, defaultStrategy) :
              call' = [name |-> "selectiveCompress", segments |-> segments,
                       defaultStrategy |-> defaultStrategy, result |-> result]
    /\ pc' = "called"
    /\ UNCHANGED <<tokenizerVars, grammarVars>>

NextSelective == SelectiveCompressCall

SpecSelective == InitSelective /\ [][NextSelective]_vars

\* stringify(rule) on a rule tree.
InitStringify ==
    /\ Constructed(VocabAB)
    /\ text = <<>>
    /\ options = StrategyOnly("random")
    /\ NoCalls
    /\ NoGrammar
    /\ NoCall
    /\ pc = "idle"

StringifyCall ==
    /\ pc = "idle"
    /\ \E rule \in RuleTrees :
          call' = [name |-> "stringify", rule |-> rule, result |-> stringify(rule)]
    /\ pc' = "called"
    /\ UNCHANGED <<tokenizerVars, grammarVars>>

NextStringify == StringifyCall

SpecStringify == InitStringify /\ [][NextStringify]_vars

\* The accessors of a constructed tokenizer, called with any ID or text:
\* IDs from one below the vocabulary to one above it.
LookupFixtures ==
    {Fixture(VocabAB, {"a", "b"}, {}),
     Fixture(VocabAstral, {"HI", "LO", "a"}, {}),
     Fixture(VocabDegenerate, {"a", "b"}, {})}

TokenIds(vocab) == (0 - 1)..(vocabSize(vocab) + 1)

IdSequences(vocab) == UNION {[1..n -> TokenIds(vocab)] : n \in 0..MaxIds}

InitLookup ==
    \E fixture \in LookupFixtures :
        /\ Constructed(fixture.vocab)
        /\ text \in Texts(fixture)
              \cup {fixture.vocab.tokens[i] : i \in DOMAIN fixture.vocab.tokens}
        /\ options = StrategyOnly("random")
        /\ NoCalls
        /\ NoGrammar
        /\ NoCall
        /\ pc = "constructed"

\* tokenizer.detokenize(tokenIds) on IDs of the caller's choice
DetokenizeIdsCall ==
    /\ pc = "constructed"
    /\ \E tokenIds \in IdSequences(vocabulary) :
          call' = [name |-> "detokenize", tokenIds |-> tokenIds,
                   result |-> detokenize(vocabulary, tokenIds)]
    /\ pc' = "called"
    /\ UNCHANGED <<tokenizerVars, grammarVars>>

\* tokenizer.getToken(tokenId)
GetTokenCall ==
    /\ pc = "constructed"
    /\ \E tokenId \in TokenIds(vocabulary) :
          call' = [name |-> "getToken", tokenId |-> tokenId,
                   result |-> getToken(vocabulary, tokenId)]
    /\ pc' = "called"
    /\ UNCHANGED <<tokenizerVars, grammarVars>>

\* A getTokenId that adds a text it does not find to the vocabulary.
GetTokenIdCallInterning ==
    /\ pc = "constructed"
    /\ call' = [name |-> "getTokenId", text |-> text,
                result |-> getTokenId(vocabulary, text)]
    /\ vocabulary' = IF getTokenId(vocabulary, text) = 0 - 1
                      THEN [vocabulary EXCEPT !.tokens = Append(@, text)]
                      ELSE vocabulary
    /\ pc' = "called"
    /\ UNCHANGED <<trie, specialTokenMap, text, options, tokens, run,
                   previous, decoded, grammarVars>>

\* tokenizer.getTokenId(text)
GetTokenIdCall ==
    /\ pc = "constructed"
    /\ call' = [name |-> "getTokenId", text |-> text,
                result |-> getTokenId(vocabulary, text)]
    /\ pc' = "called"
    /\ UNCHANGED <<tokenizerVars, grammarVars>>

NextLookup == DetokenizeIdsCall \/ GetTokenCall \/ GetTokenIdCall

SpecLookup == InitLookup /\ [][NextLookup]_vars

\* findValidTokens, as tokenize calls it: on a text and a position in it.
InitCandidates ==
    \E fixture \in Fixtures :
        /\ Constructed(fixture.vocab)
        /\ text \in Texts(fixture)
        /\ options = StrategyOnly("random")
        /\ NoCalls
        /\ NoGrammar
        /\ NoCall
        /\ pc = "constructed"

\* this.findValidTokens(text, startPos)
FindValidTokensCall ==
    /\ pc = "constructed"
    /\ \E startPos \in 0..Len(text) :
          call' = [name |-> "findValidTokens", startPos |-> startPos,
                   result |-> findValidTokens(trie, text, startPos)]
    /\ pc' = "called"
    /\ UNCHANGED <<tokenizerVars, grammarVars>>

NextCandidates == FindValidTokensCall

SpecCandidates == InitCandidates /\ [][NextCandidates]_vars

(***************************************************************************)
(* One tokenizer instance shared by a sequence of calls: after a call has  *)
(* returned, the next call is made on the same instance, in any order.     *)
(***************************************************************************)
SharedOptions ==
    {o \in Options :
        /\ o.strategy = "random"
        /\ o.seed \in {None, Some(42)}
        /\ ~o.addBosToken /\ ~o.addEosToken
        /\ o.preserveSpecialTokens = None}

InitShared ==
    /\ Constructed(VocabBosEos)
    /\ text \in {<<"a", "b">>, <<"b", "a">>}
    /\ options \in SharedOptions
    /\ NoCalls
    /\ NoGrammar
    /\ NoCall
    /\ pc = "constructed"

\* The caller goes on to its next call on the instance.
NextCallOnInstance ==
    /\ pc \in {"tokenized", "detokenized", "called"}
    /\ pc' = "constructed"
    /\ call' = [name |-> "none"]
    /\ UNCHANGED <<tokenizerVars, grammarVars>>

NextShared ==
    \/ TokenizeCall
    \/ DetokenizeCall
    \/ GetTokenCall
    \/ GetTokenIdCall
    \/ CompressCall
    \/ CompressWithFactorCall
    \/ CompressWithGradientCall
    \/ CompareCompressionCall
    \/ SelectiveCompressCall
    \/ NextCallOnInstance

SpecShared == InitShared /\ [][NextShared]_vars

(***************************************************************************)
(* tokenize, one loop iteration at a time.  The call record holds the      *)
(* locals of the running call: in findSpecialTokens the entry of the map   *)
(* being matched, pos and matches; in the segment loop the segments, the   *)
(* index of the current one, pos, tokens, and the random source.           *)
(***************************************************************************)
LoopFixtures ==
    {Fixture(VocabDegenerate, {"a", "b"}, {}),
     Fixture(VocabOverlap, {"a", "b", "c"}, {}),
     Fixture(VocabBosEos, {"[", "a", "b"}, {})}

LoopOptions ==
    {o \in Options :
        /\ o.seed \in {None, Some(42)}
        /\ o.idealLength = None
        /\ o.addBosToken = o.addEosToken}

\* The tokenizer is constructed and tokenize has not been called; the text
\* and the options are arguments of the call.
InitLoop ==
    \E fixture \in LoopFixtures :
        /\ Constructed(fixture.vocab)
        /\ text = <<>>
        /\ options = [strategy |-> "random", idealLength |-> None,
                      seed |-> None, addBosToken |-> FALSE,
                      addEosToken |-> FALSE, preserveSpecialTokens |-> None]
        /\ NoCalls
        /\ NoGrammar
        /\ NoCall
        /\ pc = "constructed"

\* The locals on entry to the loop over the segments, line 679.
SegmentLoop(specialTokenPositions, s, opts) ==
    [name |-> "tokenize",
     segments |-> BuildSegments(specialTokenPositions, s),
     segment |-> 1,
     pos |-> 0,
     ids |-> <<>>,
     steps |-> <<>>,
     rng |-> MakeRng(opts)]

\* tokenize up to line 647: with preserveSpecialTokens findSpecialTokens is
\* entered, without it the segment loop.
EnterTokenize ==
    /\ pc = "constructed"
    /\ \E fixture \in LoopFixtures :
          /\ fixture.vocab = vocabulary
          /\ text' \in Texts(fixture)
    /\ options' \in LoopOptions
    /\ IF EffectivePreserve(options')
       THEN /\ call' = [name |-> "findSpecialTokens", entry |-> 1, pos |-> 0,
                        matches |-> <<>>]
            /\ pc' = "scanning"
       ELSE /\ call' = SegmentLoop(<<>>, text', options')
            /\ pc' = "looping"
    /\ UNCHANGED <<vocabulary, trie, specialTokenMap, tokens, run, previous,
                   decoded>>
    /\ UNCHANGED grammarVars

\* One evaluation of `(pos = text.indexOf(tokenText, pos)) !== -1`, line 567:
\* a match is pushed and pos moves past it, or the next entry is taken.
ScanStep ==
    /\ pc = "scanning"
    /\ call.entry <= Len(specialTokenMap)
    /\ LET tokenText == specialTokenMap[call.entry].text
           tokenId == specialTokenMap[call.entry].id
           at == IndexOf(text, tokenText, call.pos)
       IN  call' = IF at = -1
                   THEN [call EXCEPT !.entry = @ + 1, !.pos = 0]
                   ELSE [call EXCEPT
                           !.matches = Append(@, [start |-> at,
                                                  end |-> at + Len(tokenText),
                                                  tokenId |-> tokenId]),
                           !.pos = at + Len(tokenText)]
    /\ UNCHANGED <<tokenizerVars, grammarVars, pc>>

\* The map is exhausted: the matches are sorted and returned, and the
\* segments are built from them (lines 577-580 and 649-676).
ScanReturn ==
    /\ pc = "scanning"
    /\ call.entry > Len(specialTokenMap)
    /\ call' = SegmentLoop(SortByStart(call.matches, 0, Len(text)), text,
                           options)
    /\ pc' = "looping"
    /\ UNCHANGED <<tokenizerVars, grammarVars>>

\* One step of lines 679-759 on the locals c: a special segment is pushed,
\* or the while condition of line 688 fails and the next segment is taken,
\* or one iteration of the while loop runs.  The set of locals it may leave.
LoopIteration(c, t, s, opts) ==
    LET segment == c.segments[c.segment]
        segmentText == Substring(s, segment.start, segment.end)
        validTokens == findValidTokens(t, segmentText, c.pos)
    IN  IF segment.isSpecial
        THEN {[c EXCEPT !.ids = Append(@, segment.tokenId[1]),
                        !.segment = @ + 1, !.pos = 0]}
        ELSE IF c.pos >= Len(segmentText)
        THEN {[c EXCEPT !.segment = @ + 1, !.pos = 0]}
        ELSE IF validTokens = <<>>
        THEN {[c EXCEPT
                 !.steps = Append(@, Step(segment.start, c.pos, validTokens,
                                          None)),
                 !.pos = @ + 1]}
        ELSE {LET selectedToken ==
                      Select(EffectiveStrategy(opts),
                             EffectiveIdealLength(opts),
                             validTokens, draw.value)
              IN  [c EXCEPT
                     !.ids = Append(@, selectedToken.id),
                     !.steps = Append(@, Step(segment.start, c.pos,
                                              validTokens,
                                              Some(selectedToken))),
                     !.pos = @ + selectedToken.length,
                     !.rng = draw.rng] : draw \in Draws(c.rng)}

LoopStep ==
    /\ pc = "looping"
    /\ call.segment <= Len(call.segments)
    /\ call' \in LoopIteration(call, trie, text, options)
    /\ UNCHANGED <<tokenizerVars, grammarVars, pc>>

\* The segments are exhausted: EOS is added and tokens returned, lines
\* 761-766.
LoopReturn ==
    /\ pc = "looping"
    /\ call.segment > Len(call.segments)
    /\ tokens' = BosPrefix(vocabulary, options) \o call.ids
                 \o EosSuffix(vocabulary, options)
    /\ run' = [segments |-> call.segments, steps |-> call.steps]
    /\ previous' = Some([tokens |-> tokens', later |-> <<>>])
    /\ call' = [name |-> "none"]
    /\ pc' = "tokenized"
    /\ UNCHANGED <<vocabulary, trie, specialTokenMap, text, options, decoded>>
    /\ UNCHANGED grammarVars

NextLoop ==
    \/ EnterTokenize
    \/ ScanStep
    \/ ScanReturn
    \/ LoopStep
    \/ LoopReturn

SpecLoop == InitLoop /\ [][NextLoop]_vars

(***************************************************************************)
(* Vocabulary of the claims.                                               *)
(***************************************************************************)
IsPrefixOf(prefix, s) ==
    Len(prefix) <= Len(s) /\ SubSeq(s, 1, Len(prefix)) = prefix

TokenTexts(vocab) == {vocab.tokens[i] : i \in DOMAIN vocab.tokens}

\* The IDs the vocabulary registers as special: special_token_ids, BOS, EOS.
RegisteredSpecialIds(vocab) ==
    {vocab.special_token_ids[i] : i \in DOMAIN vocab.special_token_ids}
    \cup {vocab.bos_token_id[i] : i \in DOMAIN vocab.bos_token_id}
    \cup {vocab.eos_token_id[i] : i \in DOMAIN vocab.eos_token_id}

\* Every character (code point) of s is a token of the vocabulary.
SingleCharCovered(vocab, s) ==
    \A i \in DOMAIN CodePoints(s) : CodePoints(s)[i] \in TokenTexts(vocab)

\* The registered special tokens whose (non-empty) text the text begins with.
LeadingSpecials(vocab, s) ==
    {id \in RegisteredSpecialIds(vocab) :
        Truthy(TokenAt(vocab, id)) /\ IsPrefixOf(TokenAt(vocab, id), s)}

\* The positions of s inside an occurrence of a special token's text.
SpecialPositions(m, s) ==
    LET found == findSpecialTokens(m, s)
    IN  {p \in 0..(Len(s) - 1) :
            \E i \in DOMAIN found : found[i].start <= p /\ p < found[i].end}

(***************************************************************************)
(* C1.  Round-trip: on a vocabulary that registers no special token, for   *)
(* every text each of whose characters is a single-character token, every  *)
(* strategy and every random draw, detokenize(tokenize(text)) = text.      *)
(***************************************************************************)
C1_RoundTrip ==
    (/\ pc = "detokenized"
     /\ RegisteredSpecialIds(vocabulary) = {}
     /\ SingleCharCovered(vocabulary, text))
    => decoded = text

(***************************************************************************)
(* C3.  Special-token atomicity, as claimed: with preserveSpecialTokens    *)
(* true, when the text begins with the text of exactly one registered      *)
(* special token S, the first ID tokenize returns is S.                    *)
(***************************************************************************)
C3_FirstIdIsSpecial ==
    (/\ pc = "tokenized"
     /\ EffectivePreserve(options)
     /\ Cardinality(LeadingSpecials(vocabulary, text)) = 1)
    => (tokens # <<>> /\ tokens[1] \in LeadingSpecials(vocabulary, text))

\* The IDs tokenize returned after the BOS ID it was asked to inject.
AfterInjectedBos ==
    IF options.addBosToken /\ vocabulary.bos_token_id # None
    THEN Tail(tokens) ELSE tokens

(***************************************************************************)
(* C3, amended: under the same conditions S is the first ID after the BOS  *)
(* ID that addBosToken injects (the first ID when none is injected), for   *)
(* every strategy and every draw.                                          *)
(***************************************************************************)
C3_FirstIdAfterBosIsSpecial ==
    (/\ pc = "tokenized"
     /\ EffectivePreserve(options)
     /\ Cardinality(LeadingSpecials(vocabulary, text)) = 1)
    => (/\ AfterInjectedBos # <<>>
        /\ AfterInjectedBos[1] \in LeadingSpecials(vocabulary, text))

\* A call that injected BOS before a leading special token other than BOS,
\* on a text that the trie alone could have begun with a shorter token.
C3_Witness ==
    /\ pc = "tokenized"
    /\ EffectivePreserve(options)
    /\ options.strategy = "shortest"
    /\ options.addBosToken /\ vocabulary.bos_token_id # None
    /\ Cardinality(LeadingSpecials(vocabulary, text)) = 1
    /\ vocabulary.bos_token_id[1] \notin LeadingSpecials(vocabulary, text)
    /\ Len(tokens) >= 2
    /\ tokens[2] \in LeadingSpecials(vocabulary, text)
    /\ Len(TokenAt(vocabulary, tokens[2])) >= 2

(***************************************************************************)
(* C4.  Round-trip with special tokens: with preserveSpecialTokens true,   *)
(* on a vocabulary with special tokens, for every text whose characters    *)
(* outside the special tokens' occurrences are single-character tokens,    *)
(* detokenize(tokenize(text)) = text, overlapping occurrences included.    *)
(***************************************************************************)
C4_RoundTripSpecial ==
    (/\ pc = "detokenized"
     /\ EffectivePreserve(options)
     /\ specialTokenMap # <<>>
     /\ ~options.addBosToken /\ ~options.addEosToken
     /\ \A p \in (0..(Len(text) - 1)) \ SpecialPositions(specialTokenMap, text) :
            Substring(text, p, p + 1) \in TokenTexts(vocabulary))
    => decoded = text

(***************************************************************************)
(* C5.  Special-token overlap policy: the special and normal spans that    *)
(* tokenize builds are pairwise disjoint, in strictly increasing position  *)
(* order, and together cover every text position exactly once (so of two   *)
(* overlapping occurrences only the earlier one is a span).                *)
(***************************************************************************)
C5_SegmentsPartitionText ==
    pc = "tokenized" =>
        LET segments == run.segments
        IN  /\ \A i, j \in DOMAIN segments :
                  i < j => (/\ segments[i].start < segments[j].start
                            /\ segments[i].end <= segments[j].start)
            /\ \A p \in 0..(Len(text) - 1) :
                  Cardinality({i \in DOMAIN segments :
                      segments[i].start <= p /\ p < segments[i].end}) = 1

(***************************************************************************)
(* C6.  Disabling preservation: with preserveSpecialTokens false a special *)
(* token's text in the input is decomposed into single-character tokens,   *)
(* never emitted as the special token's ID; on the vocabulary              *)
(* <, s, >, <s>, h, e, l, o, hello the call                                *)
(* tokenize("<s>hello", {strategy: "longest", preserveSpecialTokens:       *)
(* false}) returns IDs beginning 0, 1, 2.                                  *)
(***************************************************************************)
C6_DisabledDecomposes ==
    (/\ pc = "tokenized"
     /\ vocabulary = VocabHello
     /\ text = <<"<", "s", ">", "h", "e", "l", "l", "o">>
     /\ options.strategy = "longest"
     /\ options.preserveSpecialTokens = Some(FALSE)
     /\ ~options.addBosToken)
    => (Len(tokens) >= 3 /\ SubSeq(tokens, 1, 3) = <<0, 1, 2>>)

\* The IDs of the tokens the steps of the last call selected, in order.
RECURSIVE SelectedIds(_)
SelectedIds(steps) ==
    IF steps = <<>> THEN <<>>
    ELSE (IF Head(steps).selected = None THEN <<>>
          ELSE <<Head(steps).selected[1].id>>)
         \o SelectedIds(Tail(steps))

(***************************************************************************)
(* C7.  Strategy correctness: under "longest" the token selected at each   *)
(* position has the greatest matched length among the candidates found     *)
(* there, under "shortest" the least, for every draw; the selected token   *)
(* is one of the candidates and its ID is what tokenize returns.  On the   *)
(* vocabulary a, b, ab: tokenize("ab", "longest") = [2] and                *)
(* tokenize("ab", "shortest") = [0, 1].                                    *)
(***************************************************************************)
C7_StrategyCorrect ==
    pc = "tokenized" =>
        /\ \A i \in DOMAIN run.steps :
              LET step == run.steps[i]
                  lengths == {step.validTokens[j].length :
                                 j \in DOMAIN step.validTokens}
              IN  step.selected # None =>
                    /\ \E j \in DOMAIN step.validTokens :
                          step.validTokens[j] = step.selected[1]
                    /\ options.strategy = "longest" =>
                          \A n \in lengths : n <= step.selected[1].length
                    /\ options.strategy = "shortest" =>
                          \A n \in lengths : n >= step.selected[1].length
        /\ RegisteredSpecialIds(vocabulary) = {} =>
              tokens = SelectedIds(run.steps)
        /\ (vocabulary = VocabAB /\ text = <<"a", "b">>) =>
              /\ options.strategy = "longest" => tokens = <<2>>
              /\ options.strategy = "shortest" => tokens = <<0, 1>>

\* "longest" chose ab where a was a candidate too, with an unseeded draw.
C7_Witness ==
    /\ pc = "tokenized"
    /\ vocabulary = VocabAB
    /\ text = <<"a", "b">>
    /\ options.strategy = "longest"
    /\ options.seed = None
    /\ Len(run.steps) = 1
    /\ Len(run.steps[1].validTokens) = 2
    /\ tokens = <<2>>

\* What tokenize may return for the same text, strategy and seed with
\* neither addBosToken nor addEosToken.
WithoutInjection ==
    {outcome.tokens :
        outcome \in Tokenize(vocabulary, trie, specialTokenMap, text,
                             [options EXCEPT !.addBosToken = FALSE,
                                             !.addEosToken = FALSE])}

(***************************************************************************)
(* C8.  BOS/EOS injection: what tokenize returns with addBosToken (resp.   *)
(* addEosToken) is a sequence it returns without the flag for the same     *)
(* text, strategy and seed, with bos_token_id put first (resp.             *)
(* eos_token_id put last); a flag whose ID the vocabulary does not define  *)
(* adds nothing.                                                           *)
(***************************************************************************)
C8_InjectionWrapsResult ==
    pc = "tokenized" =>
        LET bos == IF options.addBosToken THEN vocabulary.bos_token_id ELSE None
            eos == IF options.addEosToken THEN vocabulary.eos_token_id ELSE None
        IN  \E base \in WithoutInjection : tokens = bos \o base \o eos

\* Both IDs injected around a non-empty result, and a call whose flags
\* added nothing is covered by the same formula.
C8_Witness ==
    /\ pc = "tokenized"
    /\ options.addBosToken /\ options.addEosToken
    /\ vocabulary.bos_token_id # None /\ vocabulary.eos_token_id # None
    /\ text = <<"a", "b">>
    /\ tokens = <<0, 4, 1>>

(***************************************************************************)
(* C2.  Seed determinism: a tokenize call with a seed returns the IDs that *)
(* the first call with the same text, options and seed returned on this    *)
(* tokenizer, for every strategy, whichever calls, seeded or not, were     *)
(* made in between.                                                        *)
(***************************************************************************)
C2_SeedDeterminism ==
    (pc = "tokenized" /\ options.seed # None) => tokens = previous[1].tokens

\* The seeded random call is repeated after a call with another seed and
\* returns the same IDs, which took more than one draw.
C2_Witness ==
    /\ pc = "tokenized"
    /\ options.seed # None
    /\ options.strategy = "random"
    /\ previous[1].later = <<"other", "same">>
    /\ text = <<"a", "b", "a", "b">>
    /\ tokens = <<2, 0, 1>>
    /\ tokens = previous[1].tokens

(***************************************************************************)
(* The lines of a compiled grammar, and the parts of a production line.    *)
(***************************************************************************)
RECURSIVE SplitLines(_, _)
SplitLines(s, line) ==
    IF Len(s) = 0 THEN <<line>>
    ELSE IF Head(s) = "\n" THEN <<line>> \o SplitLines(Tail(s), <<>>)
    ELSE SplitLines(Tail(s), Append(line, Head(s)))

OutputLines == SplitLines(output.text, <<>>)

Arrow == <<" ", ":", ":", "=", " ">>

\* The line is a production of the given left-hand side.
HasLhs(line, lhs) == IsPrefixOf(lhs \o Arrow, line)

\* What follows the " ::= " of a production of the given left-hand side.
RhsOf(line, lhs) == SubSeq(line, Len(lhs) + Len(Arrow) + 1, Len(line))

NameCharacter(c) == c \in {"x", "z", "a", "p", "-", "\""} \/ IsDigit(c)

\* The number of places of s where the name stands bare: as a whole word,
\* outside quotes.
BareCount(s, name) ==
    Cardinality({i \in 1..(Len(s) - Len(name) + 1) :
        /\ SubSeq(s, i, i + Len(name) - 1) = name
        /\ (i > 1 => ~NameCharacter(s[i - 1]))
        /\ (i + Len(name) <= Len(s) => ~NameCharacter(s[i + Len(name)]))})

Keys == {rules[i].name : i \in 1..Len(rules)}

(***************************************************************************)
(* C9.  Grammar output shape: grammar(rules) returns one line per key of   *)
(* the mapping, in the mapping's insertion order, the line of a key being  *)
(* its production name, " ::= " and the stringified body, the lines joined *)
(* by single newlines with no trailing newline.                            *)
(***************************************************************************)
C9_OneLinePerKeyInInsertionOrder ==
    (pc = "compiled" /\ ~output.threw) =>
        /\ Len(OutputLines) = Len(rules)
        /\ \A i \in 1..Len(rules) :
              OutputLines[i] =
                  ProductionName(rules[i].name, grammarOptions) \o Arrow
                      \o stringify(RuleBody(rules[i].rule,
                                            Proxy(rules, grammarOptions)))

C11_ReferencesCarryPrefix ==
    (/\ pc = "compiled"
     /\ grammarOptions.compileMode # Some("inline")
     /\ grammarOptions.prefix # None
     /\ grammarOptions.prefix[1] # <<>>
     /\ ~output.threw) =>
        LET P == grammarOptions.prefix[1] \o <<"-">>
        IN  /\ \A k \in 1..Len(OutputLines) :
                  \E R \in Keys : HasLhs(OutputLines[k], P \o R)
            /\ \A i \in 1..Len(rules) : \A R2 \in Keys :
                  (rules[i].rule.type = "function"
                      /\ RefCount(rules[i].rule.body, R2) > 0) =>
                      \E k \in 1..Len(OutputLines) :
                          /\ HasLhs(OutputLines[k], P \o rules[i].name)
                          /\ BareCount(RhsOf(OutputLines[k],
                                             P \o rules[i].name), P \o R2)
                                = RefCount(rules[i].rule.body, R2)

(***************************************************************************)
(* The numbers of tokens of the sequences of (non-empty) vocabulary tokens *)
(* whose concatenation is s.                                               *)
(***************************************************************************)
RECURSIVE TokenCounts(_, _)
TokenCounts(vocab, s) ==
    IF s = <<>> THEN {0}
    ELSE UNION {{1 + n : n \in TokenCounts(vocab,
                                 SubSeq(s, Len(vocab.tokens[i]) + 1, Len(s)))} :
                i \in {j \in DOMAIN vocab.tokens :
                          vocab.tokens[j] # <<>> /\ IsPrefixOf(vocab.tokens[j], s)}}

(***************************************************************************)
(* C12.  compress minimizes token count: for a text that some sequence of  *)
(* vocabulary tokens spells, what compress returns has the fewest tokens   *)
(* of all such sequences, and getCompressionStats.minTokens is that        *)
(* minimum.                                                                *)
(***************************************************************************)
C12_CompressIsMinimal ==
    (pc = "called" /\ TokenCounts(vocabulary, text) # {}) =>
        /\ call.name = "compress" =>
              call.result.tokenCount = MinOf(TokenCounts(vocabulary, text))
        /\ call.name = "getCompressionStats" =>
              call.result.minTokens = MinOf(TokenCounts(vocabulary, text))

(***************************************************************************)
(* C13.  Compression monotonicity: for a non-empty text that both runs of  *)
(* compareCompression tokenize without skipping a character,               *)
(* mostCompressed.tokenCount <= leastCompressed.tokenCount, for every      *)
(* tie-break.                                                              *)
(***************************************************************************)
C13_MostCompressedNotLonger ==
    (/\ pc = "called"
     /\ call.name = "compareCompression"
     /\ text # <<>>
     /\ Concat(call.result.mostCompressed.tokenStrings) = text
     /\ Concat(call.result.leastCompressed.tokenStrings) = text)
    => call.result.mostCompressed.tokenCount
          <= call.result.leastCompressed.tokenCount

(***************************************************************************)
(* The parts of a sequence or choice as the claims describe them: each     *)
(* element stringified, a bare string between double quotes, with the      *)
(* separator between every two neighbours.                                 *)
(***************************************************************************)
ElementText(e) ==
    IF e.type = "string" THEN <<"\"">> \o e.value \o <<"\"">> ELSE stringify(e)

Separated(elements, separator) ==
    Concat([i \in 1..(2 * Len(elements) - 1) |->
               IF i % 2 = 1 THEN ElementText(elements[(i + 1) \div 2])
               ELSE separator])

(***************************************************************************)
(* C14.  Sequence and Choice rendering: stringify of a sequence is its     *)
(* elements' texts joined by one space, with no parentheses around them;   *)
(* of a choice, "(" then the elements' texts joined by " | " then ")"; of  *)
(* the empty sequence the empty string and of the empty choice "()",       *)
(* without an error.                                                       *)
(***************************************************************************)
C14_SequenceAndChoice ==
    (pc = "called" /\ call.name = "stringify") =>
        /\ call.rule.type = "sequence" =>
              /\ call.result = Separated(call.rule.rules, <<" ">>)
              /\ (call.rule.rules = <<>> => call.result = <<>>)
        /\ call.rule.type = "choice" =>
              /\ call.result = <<"(">>
                    \o Separated(call.rule.rules, <<" ", "|", " ">>) \o <<")">>
              /\ (call.rule.rules = <<>> => call.result = <<"(", ")">>)
        /\ call.rule.type \in {"sequence", "choice"} => ~Throws(call.result)

\* A sequence of a bare string and a rule, and the empty choice.
C14_Witness ==
    /\ pc = "called"
    /\ call.name = "stringify"
    /\ call.rule = seq(<<Lit(<<"a">>), optional(named(<<"x">>))>>)
    /\ call.result = <<"\"", "a", "\"", " ", "x", "?">>

(***************************************************************************)
(* C15.  Postfix repetition rendering: for integers m <= n, stringify of   *)
(* Repeat(r, m, n) is stringify(r) then "{m,n}", both numbers written out  *)
(* also when they are equal or 0; of Repeat0(r), Repeat1(r) and            *)
(* Optional(r) it is stringify(r) then "*", "+" and "?".                   *)
(***************************************************************************)
C15_PostfixRepetition ==
    (pc = "called" /\ call.name = "stringify") =>
        /\ (call.rule.type = "repeat" /\ call.rule.min <= call.rule.max) =>
              call.result = stringify(call.rule.rule) \o <<"{">>
                  \o NumberToString(call.rule.min) \o <<",">>
                  \o NumberToString(call.rule.max) \o <<"}">>
        /\ call.rule.type = "repeat0" =>
              call.result = stringify(call.rule.rule) \o <<"*">>
        /\ call.rule.type = "repeat1" =>
              call.result = stringify(call.rule.rule) \o <<"+">>
        /\ call.rule.type = "optional" =>
              call.result = stringify(call.rule.rule) \o <<"?">>

\* A repeat of a bare string with both counts 0.
C15_Witness ==
    /\ pc = "called"
    /\ call.name = "stringify"
    /\ call.rule = repeat(Lit(<<"a">>), 0, 0)
    /\ call.result = <<"\"", "a", "\"", "{", "0", ",", "0", "}">>

(***************************************************************************)
(* C16.  Leaf rendering: stringify of a bare string s is s between double  *)
(* quotes, copied unchanged (a double quote inside s is not escaped), and  *)
(* of a range it is the range specification between "[" and "]", so        *)
(* [a-z] for a-z.                                                          *)
(***************************************************************************)
C16_Leaves ==
    (pc = "called" /\ call.name = "stringify") =>
        /\ call.rule.type = "string" =>
              /\ Len(call.result) = Len(call.rule.value) + 2
              /\ call.result[1] = "\"" /\ call.result[Len(call.result)] = "\""
              /\ SubSeq(call.result, 2, Len(call.result) - 1) = call.rule.value
        /\ call.rule.type = "range" =>
              call.result = <<"[">> \o call.rule.range \o <<"]">>

\* A string with a double quote inside it.
C16_Witness ==
    /\ pc = "called"
    /\ call.name = "stringify"
    /\ call.rule = Lit(<<"a", "\"", "b">>)
    /\ call.result = <<"\"", "a", "\"", "b", "\"">>

(***************************************************************************)
(* C17.  detokenize totality: detokenize(ids) is the concatenation, in     *)
(* order, of tokens[id] for the IDs in 0..vocabSize-1, every other ID      *)
(* (negative, too large) contributing the empty string; the IDs in range   *)
(* contribute the same whatever stands around them.                        *)
(***************************************************************************)
C17_DetokenizeTotal ==
    (pc = "called" /\ call.name = "detokenize") =>
        call.result =
            Concat([i \in 1..Len(call.tokenIds) |->
                IF call.tokenIds[i] \in 0..(vocabSize(vocabulary) - 1)
                THEN vocabulary.tokens[call.tokenIds[i] + 1]
                ELSE <<>>])

\* A negative ID, a token, and an ID one past the vocabulary.
C17_Witness ==
    /\ pc = "called"
    /\ call.name = "detokenize"
    /\ vocabulary = VocabAB
    /\ call.tokenIds = <<0 - 1, 2, 3>>
    /\ call.result = <<"a", "b">>

(***************************************************************************)
(* C18.  Lookup accessors: getToken(i) is tokens[i] for 0 <= i < vocabSize *)
(* and the not-found value (undefined) otherwise; getTokenId(t) is the     *)
(* smallest index of t in tokens, and -1 when t is no token; and           *)
(* getToken(getTokenId(t)) = t for every token t.                          *)
(***************************************************************************)
C18_LookupAccessors ==
    pc = "called" =>
        /\ call.name = "getToken" =>
              IF call.tokenId \in 0..(vocabSize(vocabulary) - 1)
              THEN call.result = vocabulary.tokens[call.tokenId + 1]
              ELSE call.result = UndefinedText
        /\ call.name = "getTokenId" =>
              IF call.text \in TokenTexts(vocabulary)
              THEN /\ call.result \in 0..(vocabSize(vocabulary) - 1)
                   /\ vocabulary.tokens[call.result + 1] = call.text
                   /\ \A i \in 0..(call.result - 1) :
                         vocabulary.tokens[i + 1] # call.text
                   /\ getToken(vocabulary, call.result) = call.text
              ELSE call.result = 0 - 1

\* The text of a token that the vocabulary lists twice.
C18_Witness ==
    /\ pc = "called"
    /\ call.name = "getTokenId"
    /\ vocabulary = VocabDegenerate
    /\ call.text = <<"a">>
    /\ call.result = 1
    /\ vocabulary.tokens[3] = <<"a">>

(***************************************************************************)
(* The pieces of a text under a list of segments, by position: a segment   *)
(* where one starts, otherwise the gap up to the next segment's start.     *)
(***************************************************************************)
NonOverlapping(segments) ==
    \A i, j \in DOMAIN segments :
        i # j => ~(/\ segments[i].start < segments[j].end
                   /\ segments[j].start < segments[i].end)

RECURSIVE PiecewiseTokens(_, _, _)
PiecewiseTokens(segments, defaultStrategy, pos) ==
    IF pos >= Len(text) THEN {<<>>}
    ELSE LET here == {i \in DOMAIN segments :
                         segments[i].start = pos /\ segments[i].end > pos}
             later == {segments[i].start : i \in {j \in DOMAIN segments :
                         segments[j].start > pos /\ segments[j].end > segments[j].start}}
             next == IF here # {} THEN segments[CHOOSE i \in here : TRUE].end
                     ELSE MinOf(later \cup {Len(text)})
             opts == IF here # {}
                     THEN SegmentOptions(segments[CHOOSE i \in here : TRUE])
                     ELSE StrategyOnly(defaultStrategy)
         IN  {piece \o rest :
                 piece \in PieceTokens(vocabulary, trie, specialTokenMap,
                                       Substring(text, pos, next), opts),
                 rest \in PiecewiseTokens(segments, defaultStrategy, next)}

(***************************************************************************)
(* C19.  selectiveCompress: for in-bounds, pairwise non-overlapping        *)
(* segments in any order, the result's tokens are the concatenation, by    *)
(* increasing position, of each segment's text tokenized under its         *)
(* strategy and of each gap tokenized under the default strategy; and      *)
(* decompress(result.tokens) is the text when every character is a token.  *)
(***************************************************************************)
C19_SelectiveIsPiecewise ==
    (/\ pc = "called"
     /\ call.name = "selectiveCompress"
     /\ NonOverlapping(call.segments)) =>
        /\ call.result.tokens
              \in PiecewiseTokens(call.segments, call.defaultStrategy, 0)
        /\ SingleCharCovered(vocabulary, text) =>
              decompress(vocabulary, call.result.tokens) = text

\* The numbers of tokens tokenize may return for the text under a strategy.
StrategyTokenCounts(strategy) ==
    {Len(outcome.tokens) :
        outcome \in Tokenize(vocabulary, trie, specialTokenMap, text,
                             StrategyOnly(strategy))}

(***************************************************************************)
(* C20.  compressWithFactor extremes: for every draw, factor 0.0 gives the *)
(* token count of the "shortest" strategy (no compression), and factor 1.0 *)
(* the token count of the "longest" strategy (maximum compression).        *)
(***************************************************************************)
C20_FactorExtremes ==
    (pc = "called" /\ call.name = "compressWithFactor") =>
        /\ call.compressionFactor = <<0, 1>> =>
              call.result.tokenCount \in StrategyTokenCounts("shortest")
        /\ call.compressionFactor = <<1, 1>> =>
              call.result.tokenCount \in StrategyTokenCounts("longest")

\* The lengths of the non-empty tokens among the first min(1000, vocabSize)
\* tokens of the vocabulary.
ObservedLengths ==
    {Len(vocabulary.tokens[i]) :
        i \in {j \in DOMAIN vocabulary.tokens :
                  j <= 1000 /\ vocabulary.tokens[j] # <<>>}}

\* round(lo + (num / den) * (hi - lo)), halves rounded up.
Interpolated(lo, hi, num, den) ==
    ((2 * ((lo * den) + (num * (hi - lo)))) + den) \div (2 * den)

(***************************************************************************)
(* C21.  compressWithFactor interpolation: the idealLength handed to the   *)
(* ideal-length strategy is round(minLen + factor * (maxLen - minLen)) for *)
(* the factor clamped to [0, 1] and the minimum and maximum token lengths  *)
(* observed in the vocabulary, and it is the idealLength tokenize uses.    *)
(***************************************************************************)
C21_Interpolation ==
    (/\ pc = "called"
     /\ call.name = "compressWithFactor"
     /\ ObservedLengths # {}) =>
        LET f == call.compressionFactor
            num == IF f[1] < 0 THEN 0 ELSE IF f[1] > f[2] THEN f[2] ELSE f[1]
            expected == Interpolated(MinOf(ObservedLengths),
                                     MaxOf(ObservedLengths), num, f[2])
        IN  /\ call.idealLength = expected
            /\ EffectiveIdealLength(
                   [options EXCEPT !.idealLength = Some(call.idealLength)])
                  = expected

\* The elements of a set of numbers in increasing order.
RECURSIVE Ascending(_)
Ascending(S) ==
    IF S = {} THEN <<>>
    ELSE <<MinOf(S)>> \o Ascending(S \ {MinOf(S)})

\* The token IDs whose token is the given string.
IdsOfText(str) ==
    {i - 1 : i \in {j \in DOMAIN vocabulary.tokens : vocabulary.tokens[j] = str}}

\* The tokens that are the text from p on for `length` characters or more,
\* by increasing length and, within a length, by increasing ID.
RECURSIVE PrefixTokens(_, _)
PrefixTokens(p, length) ==
    IF p + length > Len(text) THEN <<>>
    ELSE LET ids == Ascending(IdsOfText(Substring(text, p, p + length)))
         IN  [k \in 1..Len(ids) |-> [id |-> ids[k], length |-> length]]
             \o PrefixTokens(p, length + 1)

(***************************************************************************)
(* C22.  findValidTokens(text, p) returns exactly the candidates           *)
(* {id, length} whose non-empty token is the text from p on for length     *)
(* characters, duplicates included, by increasing length and then by       *)
(* increasing ID; it is empty iff no token is a prefix of the rest.        *)
(***************************************************************************)
C22_CandidatesArePrefixTokens ==
    (pc = "called" /\ call.name = "findValidTokens") =>
        [k \in DOMAIN call.result |->
            [id |-> call.result[k].id, length |-> call.result[k].length]]
          = PrefixTokens(call.startPos, 1)

\* The text positions at which the loop found no candidate.
SkippedPositions ==
    {run.steps[i].start + run.steps[i].pos :
        i \in {j \in DOMAIN run.steps : run.steps[j].validTokens = <<>>}}

\* The string s from position p on, without the characters at the positions
\* in skipped.
RECURSIVE WithoutPositions(_, _, _)
WithoutPositions(s, skipped, p) ==
    IF p >= Len(s) THEN <<>>
    ELSE (IF p \in skipped THEN <<>> ELSE <<s[p + 1]>>)
         \o WithoutPositions(s, skipped, p + 1)

(***************************************************************************)
(* C23.  No-coverage recovery: an iteration that finds no candidate (the   *)
(* one that warns) emits no token and the next iteration of the segment is *)
(* one character further; tokenize returns all the same, and without       *)
(* BOS/EOS injection detokenize(tokenize(text)) is the text with exactly   *)
(* the skipped characters removed.                                         *)
(***************************************************************************)
C23_SkipOneAndContinue ==
    (pc = "detokenized" /\ ~options.addBosToken /\ ~options.addEosToken) =>
        /\ \A i \in DOMAIN run.steps :
              run.steps[i].validTokens = <<>> =>
                  /\ run.steps[i].selected = None
                  /\ (i < Len(run.steps)
                      /\ run.steps[i + 1].start = run.steps[i].start) =>
                         run.steps[i + 1].pos = run.steps[i].pos + 1
        /\ Len(tokens) = Len(SelectedIds(run.steps))
                            + Cardinality({i \in DOMAIN run.segments :
                                              run.segments[i].isSpecial})
        /\ decoded = WithoutPositions(text, SkippedPositions, 0)

\* The weights 1 / (1 + |length - idealLength|) of the candidates over the
\* common denominator 60 (a length is at most 5 away from the ideal one).
WeightOver60(candidate, idealLength) ==
    60 \div (1 + Abs(candidate.length - idealLength))

\* The first candidate, in candidate order, whose cumulative normalized
\* weight exceeds the draw r; the last candidate if there is none.
CoveringCandidate(candidates, idealLength, r) ==
    LET w == [i \in DOMAIN candidates |->
                 WeightOver60(candidates[i], idealLength)]
        exceeds(i) == LessThanRatio(r, Sum(w, i), Sum(w, Len(candidates)))
    IN  IF \E i \in DOMAIN candidates : exceeds(i)
        THEN candidates[CHOOSE i \in DOMAIN candidates :
                 exceeds(i) /\ \A j \in 1..(i - 1) : ~exceeds(j)]
        ELSE candidates[Len(candidates)]

\* The selections of the steps are those of one draw per selecting step,
\* taken from the random source in order.
RECURSIVE OneDrawPerStep(_, _, _)
OneDrawPerStep(steps, idealLength, rng) ==
    IF steps = <<>> THEN TRUE
    ELSE IF Head(steps).selected = None
         THEN OneDrawPerStep(Tail(steps), idealLength, rng)
         ELSE \E draw \in Draws(rng) :
                 /\ Head(steps).selected[1]
                       = CoveringCandidate(Head(steps).validTokens,
                                           idealLength, draw.value)
                 /\ OneDrawPerStep(Tail(steps), idealLength, draw.rng)

(***************************************************************************)
(* C24.  ideal-length selection: at each position one random value r is    *)
(* drawn and the selected candidate is the first, in candidate order,      *)
(* whose cumulative normalized weight (weights proportional to             *)
(* 1 / (1 + |length - idealLength|)) exceeds r, the last candidate if none *)
(* does; the selected token is one of the candidates at that position.     *)
(***************************************************************************)
C24_IdealLengthSelection ==
    (pc = "tokenized" /\ options.strategy = "ideal-length") =>
        /\ \A i \in DOMAIN run.steps :
              run.steps[i].selected # None =>
                  \E k \in DOMAIN run.steps[i].validTokens :
                      run.steps[i].validTokens[k] = run.steps[i].selected[1]
        /\ OneDrawPerStep(run.steps,
                          IF options.idealLength = None THEN 4
                          ELSE options.idealLength[1],
                          IF options.seed = None THEN MathRandom
                          ELSE [seeded |-> TRUE,
                                state |-> SeededRandom(options.seed[1])])

\* A seeded ideal-length call in which two positions had several candidates
\* and the draws selected the first candidate once and a later one once.
C24_Witness ==
    /\ pc = "tokenized"
    /\ options.strategy = "ideal-length"
    /\ options.seed # None
    /\ \E i, j \in DOMAIN run.steps :
          /\ i < j
          /\ Len(run.steps[i].validTokens) >= 2
          /\ Len(run.steps[j].validTokens) >= 2
          /\ run.steps[i].selected # None
          /\ run.steps[j].selected # None
          /\ {run.steps[i].selected[1] = run.steps[i].validTokens[1],
              run.steps[j].selected[1] = run.steps[j].validTokens[1]}
                = {TRUE, FALSE}

\* The body of a builder with the placeholder of its name at each reference.
RECURSIVE NamesForRefs(_)
NamesForRefs(body) ==
    CASE body.type = "ref" -> named(body.name)
      [] body.type \in {"sequence", "choice"} ->
            [body EXCEPT !.rules =
                [i \in 1..Len(body.rules) |-> NamesForRefs(body.rules[i])]]
      [] body.type \in {"repeat", "repeat0", "repeat1", "optional"} ->
            [body EXCEPT !.rule = NamesForRefs(body.rule)]
      [] OTHER -> body

\* Rule i is a builder that reads the rule named R through the proxy.
RefersTo(i, R) ==
    rules[i].rule.type = "function" /\ RefCount(rules[i].rule.body, R) > 0

\* Some rule refers to itself, or two rules refer to each other.
Cyclic ==
    \E i, j \in 1..Len(rules) :
        RefersTo(i, rules[j].name) /\ RefersTo(j, rules[i].name)

\* No builder reads a name that is not a key of the mapping.
RefsDefined == \A i \in 1..Len(rules) : ~RefersTo(i, MissingName)

(***************************************************************************)
(* C25.  Recursion without expansion: in reference mode, compiling a       *)
(* grammar whose rules refer to themselves or to each other cyclically     *)
(* returns a text, and the body of each production has the bare name of    *)
(* the referenced rule once per reference, never that rule's own body.     *)
(***************************************************************************)
C25_CyclesCompileByName ==
    (/\ pc = "compiled"
     /\ grammarOptions.compileMode # Some("inline")
     /\ Cyclic
     /\ RefsDefined) =>
        /\ ~output.threw
        /\ Len(OutputLines) = Len(rules)
        /\ \A i \in 1..Len(rules) :
              rules[i].rule.type = "function" =>
                  \E k \in 1..Len(OutputLines) :
                      LET lhs == ProductionName(rules[i].name, grammarOptions)
                          rhs == RhsOf(OutputLines[k], lhs)
                      IN  /\ HasLhs(OutputLines[k], lhs)
                          /\ rhs = stringify(NamesForRefs(rules[i].rule.body))
                          /\ \A R \in Keys :
                                BareCount(rhs, R)
                                    = RefCount(rules[i].rule.body, R)

\* x reads itself twice and 2 reads x: x ::= (x | x) and 2 ::= x.
C25_Witness ==
    /\ pc = "compiled"
    /\ grammarOptions = [compileMode |-> None, prefix |-> None]
    /\ rules = << [name |-> <<"x">>,
                   rule |-> Fn(choice(<<Ref(<<"x">>), Ref(<<"x">>)>>))],
                  [name |-> <<"2">>, rule |-> Fn(Ref(<<"x">>))] >>
    /\ ~output.threw
    /\ OutputLines = << <<"2">> \o Arrow \o <<"x">>,
                        <<"x">> \o Arrow
                            \o <<"(", "x", " ", "|", " ", "x", ")">> >>

\* The names reachable from the names of S by at most n references.
RECURSIVE ReachableBy(_, _)
ReachableBy(S, n) ==
    IF n = 0 THEN S
    ELSE ReachableBy(S \cup {R \in Keys :
                        \E i \in 1..Len(rules) :
                            rules[i].name \in S /\ RefersTo(i, R)}, n - 1)

\* No rule reaches itself through references.
Acyclic ==
    \A i \in 1..Len(rules) :
        rules[i].name \notin
            ReachableBy({R \in Keys : RefersTo(i, R)}, Len(rules))

\* The rule a key is defined as.
RuleOf(R) == rules[CHOOSE i \in 1..Len(rules) : rules[i].name = R].rule

\* The body of a rule with, at each reference, the body of the referenced
\* rule (of an acyclic grammar).
RECURSIVE Inlined(_)
Inlined(body) ==
    CASE body.type = "function" -> Inlined(body.body)
      [] body.type = "ref" -> Inlined(RuleOf(body.name))
      [] body.type \in {"sequence", "choice"} ->
            [body EXCEPT !.rules =
                [i \in 1..Len(body.rules) |-> Inlined(body.rules[i])]]
      [] body.type \in {"repeat", "repeat0", "repeat1", "optional"} ->
            [body EXCEPT !.rule = Inlined(body.rule)]
      [] OTHER -> body

\* The left-hand sides of the lines of a compiled text.
LhsNames(lines) ==
    [k \in 1..Len(lines) |->
        CHOOSE R \in Keys :
            HasLhs(lines[k], ProductionName(R, grammarOptions))]

(***************************************************************************)
(* C26.  Inline mode: with compileMode "inline", for every acyclic grammar *)
(* a reference $.x in a rule body is rendered as the stringified body of   *)
(* rule x, whether x is a rule value or a builder function, and the lines  *)
(* are as many and in the same order as in reference mode.                 *)
(***************************************************************************)
C26_InlineRendersBodies ==
    (/\ pc = "compiled"
     /\ grammarOptions.compileMode = Some("inline")
     /\ Acyclic
     /\ RefsDefined) =>
        /\ ~output.threw
        /\ Len(OutputLines) = Len(rules)
        /\ LhsNames(OutputLines)
              = LhsNames(SplitLines(
                    grammar(rules, [grammarOptions EXCEPT
                                       !.compileMode = None]).text, <<>>))
        /\ \A i \in 1..Len(rules) :
              \E k \in 1..Len(OutputLines) :
                  LET lhs == ProductionName(rules[i].name, grammarOptions)
                  IN  /\ HasLhs(OutputLines[k], lhs)
                      /\ RhsOf(OutputLines[k], lhs)
                            = stringify(Inlined(rules[i].rule))

\* The position of the loop after a step.
PositionAfter(step) ==
    IF step.selected = None THEN step.pos + 1
    ELSE step.pos + step.selected[1].length

(***************************************************************************)
(* C28.  compressWithGradient runs its own loop over the whole text: the   *)
(* IDs it returns are those selected position by position from 0 on, with  *)
(* no special-token span and no BOS or EOS added; the token selected at a  *)
(* position is one of the candidates of findValidTokens there; and when    *)
(* every character of the text is a token, decompress(result.tokens) is    *)
(* the text, for every gradient and every draw.                            *)
(***************************************************************************)
C28_GradientLoop ==
    (pc = "called" /\ call.name = "compressWithGradient") =>
        LET steps == call.steps
        IN  /\ call.result.tokens = SelectedIds(steps)
            /\ \A i \in DOMAIN steps :
                  /\ steps[i].pos = IF i = 1 THEN 0
                                    ELSE PositionAfter(steps[i - 1])
                  /\ steps[i].validTokens
                        = findValidTokens(trie, text, steps[i].pos)
                  /\ steps[i].selected # None =>
                        \E k \in DOMAIN steps[i].validTokens :
                            steps[i].validTokens[k] = steps[i].selected[1]
            /\ (text # <<>>) => PositionAfter(steps[Len(steps)]) >= Len(text)
            /\ SingleCharCovered(vocabulary, text) =>
                  decompress(vocabulary, call.result.tokens) = text

\* What the call that has just returned gives on a tokenizer newly
\* constructed from the vocabulary.
ResultAsOnFresh ==
    LET t == buildTrie(vocabulary)
        m == buildSpecialTokenMap(vocabulary)
    IN  CASE pc = "tokenized" ->
                 \E outcome \in Tokenize(vocabulary, t, m, text, options) :
                     outcome.tokens = tokens
          [] pc = "detokenized" -> decoded = detokenize(vocabulary, tokens)
          [] pc = "called" /\ call.name = "getToken" ->
                 call.result = getToken(vocabulary, call.tokenId)
          [] pc = "called" /\ call.name = "getTokenId" ->
                 call.result = getTokenId(vocabulary, call.text)
          [] pc = "called" /\ call.name = "compress" ->
                 call.result \in compress(vocabulary, t, m, text, options)
          [] pc = "called" /\ call.name = "compressWithFactor" ->
                 call.result \in compressWithFactor(vocabulary, t, m, text,
                                     call.compressionFactor, options)
          [] pc = "called" /\ call.name = "compressWithGradient" ->
                 \E outcome \in compressWithGradient(vocabulary, t, text,
                                     call.gradient, options) :
                     outcome.result = call.result
          [] pc = "called" /\ call.name = "compareCompression" ->
                 call.result \in compareCompression(vocabulary, t, m, text)
          [] pc = "called" /\ call.name = "selectiveCompress" ->
                 call.result \in selectiveCompress(vocabulary, t, m, text,
                                     call.segments, call.defaultStrategy)
          [] OTHER -> TRUE

(***************************************************************************)
(* C27.  Read-only tokenizer state: no call of tokenize, detokenize,       *)
(* getToken, getTokenId, compress, compressWithFactor,                     *)
(* compressWithGradient, compareCompression or selectiveCompress changes   *)
(* the vocabulary, the trie or the special-token index, and whatever calls *)
(* came before it on the instance, a call returns what it returns on a     *)
(* newly constructed tokenizer.                                            *)
(***************************************************************************)
C27_ReadOnlyState ==
    /\ [][/\ vocabulary' = vocabulary
          /\ trie' = trie
          /\ specialTokenMap' = specialTokenMap]_vars
    /\ []ResultAsOnFresh

\* compress has returned on an instance on which tokenize and detokenize
\* returned before.
C27_Witness ==
    /\ pc = "called"
    /\ call.name = "compress"
    /\ previous # None
    /\ tokens # <<>>
    /\ decoded # <<>>


(***************************************************************************)
(* C29: tokenize terminates on every text and vocabulary, a vocabulary     *)
(* with an empty token or an empty special token included.  Every step of  *)
(* a running call lowers a rank that is never negative, so the call makes  *)
(* a bounded number of steps: an iteration of the segment loop that stays  *)
(* in its segment moves pos forward by at least one, an iteration of the   *)
(* special token scan that stays on its token moves pos forward by the     *)
(* non-zero length of the match, and no candidate is empty.                *)
(***************************************************************************)
Phase(p) ==
    CASE p = "constructed" -> 0
      [] p = "scanning" -> 1
      [] p = "looping" -> 2
      [] OTHER -> 3

\* What is left to do, in loop iterations, of the loop the call is in.
Rank(p, c, m, s) ==
    CASE p = "scanning" ->
            (Len(m) + 1 - c.entry) * (Len(s) + 2) + (Len(s) + 1 - c.pos)
      [] p = "looping" ->
            (Len(c.segments) + 1 - c.segment) * (Len(s) + 2)
            + (Len(s) + 1 - c.pos)
      [] OTHER -> 0

RankFalls ==
    \/ Phase(pc') > Phase(pc)
    \/ /\ pc' = pc
       /\ Rank(pc', call', specialTokenMap', text')
            < Rank(pc, call, specialTokenMap, text)

ScanAdvances ==
    (pc = "scanning" /\ pc' = "scanning" /\ call'.entry = call.entry) =>
        LET match == call'.matches[Len(call'.matches)]
        IN  /\ Len(call'.matches) = Len(call.matches) + 1
            /\ match.end - match.start >= 1
            /\ match.start >= call.pos
            /\ call'.pos = match.end

LoopAdvances ==
    (pc = "looping" /\ pc' = "looping" /\ call'.segment = call.segment) =>
        call'.pos >= call.pos + 1

NoEmptyCandidate ==
    pc = "looping" =>
        \A i \in DOMAIN call.steps :
            \A j \in DOMAIN call.steps[i].validTokens :
                LET candidate == call.steps[i].validTokens[j]
                IN  /\ candidate.length >= 1
                    /\ TokenAt(vocabulary, candidate.id) # <<>>

C29_TokenizeTerminates ==
    /\ [][RankFalls /\ ScanAdvances /\ LoopAdvances]_vars
    /\ [](NoEmptyCandidate
          /\ Rank(pc, call, specialTokenMap, text) >= 0)

\* C29: a call on the vocabulary with an empty token and an empty special
\* token has returned, after loop iterations at which candidates were found.
C29_Witness ==
    /\ pc = "tokenized"
    /\ vocabulary = VocabDegenerate
    /\ Len(text) >= 2
    /\ \E i \in DOMAIN run.steps : run.steps[i].selected # None

(***************************************************************************)
(* C30.  Structure preservation in stringify: a postfix operator (?, *, +, *)
(* {m,n}) over a sequence of two or more elements is rendered so that it   *)
(* applies to the whole sequence: the text of the operator over the        *)
(* sequence differs from the text of the sequence whose last element       *)
(* alone carries the operator.  The elements are string literals and the   *)
(* first is not empty, so the two trees match different languages: with ?  *)
(* or * only the first matches the empty string, and with + or {m,n} only  *)
(* the first matches the sequence twice over or only the second matches a  *)
(* doubled last element.                                                   *)
(***************************************************************************)
IsPostfix(rule) ==
    rule.type \in {"optional", "repeat0", "repeat1", "repeat"}

\* The sequence under a postfix operator, with the operator moved onto its
\* last element.
PushedToLast(rule) ==
    LET rs == rule.rule.rules
    IN  seq([i \in 1..Len(rs) |->
                IF i = Len(rs) THEN [rule EXCEPT !.rule = rs[i]] ELSE rs[i]])

OverLiteralSequence(rule) ==
    /\ IsPostfix(rule)
    /\ rule.rule.type = "sequence"
    /\ Len(rule.rule.rules) >= 2
    /\ \A i \in DOMAIN rule.rule.rules : rule.rule.rules[i].type = "string"
    /\ rule.rule.rules[1].value # <<>>

C30_PostfixCoversSequence ==
    (pc = "called" /\ call.name = "stringify"
        /\ OverLiteralSequence(call.rule)) =>
        call.result # stringify(PushedToLast(call.rule))

=============================================================================
